---------------------------- MODULE Spec2Model ----------------------------
(***************************************************************************)
(* Price resolution pipeline of price_enricher: the catalog client         *)
(* (sources/rgp.py), the auction client (sources/ebay.py), the pricing     *)
(* orchestrator (pricing.py) and the cache contract (cache.py).            *)
(*                                                                         *)
(* Money is an integer number of cents.  Python's None is the value None   *)
(* below; Truthy(x) is Python's truth test of an optional Decimal.         *)
(*                                                                         *)
(* The module holds several specifications over one set of variables; each *)
(* specification drives one component and leaves the variables of the      *)
(* other components at their idle value.                                   *)
(*   SpecSelect  : RGPClient._select_price_for_item on every input         *)
(*   SpecParse   : RGPClient._parse_search_results on every candidate list *)
(*   SpecNet     : concurrent RGPClient._make_request / _rate_limit        *)
(*   SpecClients : EbayClient.search_sold_listings and RGPClient.get_price *)
(*                 called in sequence on one shared cache                  *)
(*   SpecRuns    : the auction searches of successive runs on one cache    *)
(*   SpecLimiter : the catalog rate limiter under fair scheduling          *)
(*   Spec        : PricingEngine.enrich_batch / enrich_item                *)
(*   SpecCache   : PriceCache get / set / delete / clear / cleanup         *)
(*   SpecFx      : FXConverter rate loading                                *)
(*   SpecConvert, SpecQuery, SpecFilter, SpecSimilarity, SpecValidate :    *)
(*                 one pure function each, applied to every input          *)
(***************************************************************************)
EXTENDS Integers, Sequences, FiniteSets, TLC

VARIABLES
    sel,        \* SpecSelect: input and output of _select_price_for_item
    psr,        \* SpecParse: input and output of _parse_search_results
    now,        \* SpecNet: time.monotonic(), in ticks
    last_request_time,  \* SpecNet: _global_last_request_time (0 is 0.0)
    lock,       \* SpecNet: _global_rate_limit_lock: holder and FIFO waiters
    req,        \* SpecNet: per caller, its _make_request call
    returns,    \* SpecNet: when _rate_limit last returned, and the gap before
    cache,      \* the PriceCache table
    date,       \* time.time(), the clock of the cache
    cl,         \* SpecClients: the client call in progress, or the last one
    http,       \* HTTP requests sent by the client call in progress
    ebay_last,  \* EbayClient._last_request_time of the client in use
    eng,        \* Spec: the call of enrich_batch
    api,        \* SpecCache: the PriceCache calls made and the last answer
    fx,         \* SpecFx: the FXConverter and the endpoints it contacted
    fn          \* input and output of the pure function under study

netVars == <<now, last_request_time, lock, req, returns>>
clientVars == <<cache, date, cl, http, ebay_last>>
\* what the SpecNet actions leave alone
notNet == <<sel, psr, cache, date, cl, http, ebay_last, eng, api, fx, fn>>
vars == <<sel, psr, now, last_request_time, lock, req, returns,
          cache, date, cl, http, ebay_last, eng, api, fx, fn>>

---------------------------------------------------------------------------
(* Python values *)

None == -1

Truthy(x) == x # None /\ x # 0

Flags == {"Y", "N", "None"}

\* The components a specification does not drive
ApiIdle == api = [pc |-> "off"]
FxIdle == fx = [pc |-> "off"]
FnIdle == fn = [stage |-> "idle"]

---------------------------------------------------------------------------
(* RGPClient._select_price_for_item  (sources/rgp.py 750-840)              *)

Tiers == {"loose_price", "cib_price", "item_box_price", "item_manual_price",
          "box_only_price", "manual_only_price"}

\* One non-zero amount per tier, chosen so that every sum the function can
\* form is different from every single tier price and every other sum.
TierAmount(t) ==
    CASE t = "loose_price"       -> 1
      [] t = "box_only_price"    -> 2
      [] t = "manual_only_price" -> 4
      [] t = "item_box_price"    -> 8
      [] t = "item_manual_price" -> 16
      [] t = "cib_price"         -> 32

\* prices.get(key): None when the page gave no such tier; the regex pass of
\* _parse_game_page stores any amount below 50000, 0 included.
PriceDicts == { p \in [Tiers -> {None, 0, 1, 2, 4, 8, 16, 32}] :
                  \A t \in Tiers : p[t] \in {None, 0, TierAmount(t)} }

\* A description returned by _select_price_for_item: a str, or (at the two
\* conditional-expression returns) the tuple (None, "...").
Str(s)     == [isStr |-> TRUE,  text |-> s]
TupleOf(s) == [isStr |-> FALSE, text |-> s]

SelectPriceForItem(item, prices) ==
    LET has_game     == item.has_game = "Y"
        has_box      == item.has_box = "Y"
        has_manual   == item.has_manual = "Y"
        loose        == prices["loose_price"]
        cib          == prices["cib_price"]
        item_box     == prices["item_box_price"]
        item_manual  == prices["item_manual_price"]
        box_only     == prices["box_only_price"]
        manual_only  == prices["manual_only_price"]
        R(p, d)      == [price |-> p, desc |-> d]
    IN
    IF ~has_game THEN
        IF has_box /\ has_manual THEN
            IF Truthy(box_only) /\ Truthy(manual_only)
            THEN R(box_only + manual_only, Str("Box Only + Manual Only"))
            ELSE R(None, Str("Box + Manual only (no prices available)"))
        ELSE IF has_box THEN
            IF Truthy(box_only) THEN R(box_only, Str("Box Only"))
            ELSE R(None, Str("Box only (no price available)"))
        ELSE IF has_manual THEN
            IF Truthy(manual_only) THEN R(manual_only, Str("Manual Only"))
            ELSE R(None, Str("Manual only (no price available)"))
        ELSE R(None, Str("No components"))
    ELSE IF has_box /\ has_manual THEN
        IF Truthy(cib) THEN R(cib, Str("Complete (CIB)"))
        ELSE IF Truthy(loose) /\ Truthy(box_only) /\ Truthy(manual_only)
        THEN R(loose + box_only + manual_only,
               Str("Calculated CIB (Loose + Box + Manual)"))
        ELSE IF Truthy(item_box) /\ Truthy(manual_only)
        THEN R(item_box + manual_only, Str("Calculated CIB (Item&Box + Manual)"))
        ELSE R(None, Str("CIB (no price available)"))
    ELSE IF has_box /\ ~has_manual THEN
        IF Truthy(item_box) THEN R(item_box, Str("Item & Box"))
        ELSE IF Truthy(loose) /\ Truthy(box_only)
        THEN R(loose + box_only, Str("Calculated Item&Box (Loose + Box)"))
        ELSE IF Truthy(cib) THEN R(cib, Str("CIB (used as estimate for Item & Box)"))
        \* return loose, "..." if loose else (None, "..."): the conditional
        \* binds to the second element only.
        ELSE R(loose, IF Truthy(loose) THEN Str("Loose (Box value unknown)")
                      ELSE TupleOf("Item & Box (no price available)"))
    ELSE IF has_manual /\ ~has_box THEN
        IF Truthy(item_manual) THEN R(item_manual, Str("Item & Manual"))
        ELSE IF Truthy(loose) /\ Truthy(manual_only)
        THEN R(loose + manual_only, Str("Calculated Item&Manual (Loose + Manual)"))
        ELSE R(loose, IF Truthy(loose) THEN Str("Loose (Manual value unknown)")
                      ELSE TupleOf("Item & Manual (no price available)"))
    ELSE
        \* has_game and not has_box and not has_manual; the default fallback
        \* after this case (lines 835-840) is unreachable.
        IF Truthy(loose) THEN R(loose, Str("Loose"))
        ELSE R(None, Str("Loose (no price available)"))

ComponentFlags == [has_game : Flags, has_box : Flags, has_manual : Flags]

SelIdle == sel = [stage |-> "idle"]

SelInit ==
    \E it \in ComponentFlags, p \in PriceDicts :
        sel = [stage |-> "input", item |-> it, prices |-> p]

SelectPrice ==
    /\ sel.stage = "input"
    /\ sel' = [stage |-> "output", item |-> sel.item, prices |-> sel.prices,
               out |-> SelectPriceForItem(sel.item, sel.prices)]

---------------------------------------------------------------------------
(* The precedence table of the catalog client's price selection, for a     *)
(* given reading Av of "this tier's price is available".                   *)
TablePrice(item, prices, Av(_)) ==
    LET g  == item.has_game = "Y"
        b  == item.has_box = "Y"
        m  == item.has_manual = "Y"
        lo == prices["loose_price"]
        ci == prices["cib_price"]
        ib == prices["item_box_price"]
        im == prices["item_manual_price"]
        bo == prices["box_only_price"]
        mo == prices["manual_only_price"]
    IN
    CASE ~g /\ b /\ m  -> IF Av(bo) /\ Av(mo) THEN bo + mo ELSE None
      [] ~g /\ b /\ ~m -> IF Av(bo) THEN bo ELSE None
      [] ~g /\ ~b /\ m -> IF Av(mo) THEN mo ELSE None
      [] ~g /\ ~b /\ ~m -> None
      [] g /\ b /\ m   -> IF Av(ci) THEN ci
                          ELSE IF Av(lo) /\ Av(bo) /\ Av(mo) THEN lo + bo + mo
                          ELSE IF Av(ib) /\ Av(mo) THEN ib + mo
                          ELSE None
      [] g /\ b /\ ~m  -> IF Av(ib) THEN ib
                          ELSE IF Av(lo) /\ Av(bo) THEN lo + bo
                          ELSE IF Av(ci) THEN ci
                          ELSE IF Av(lo) THEN lo
                          ELSE None
      [] g /\ ~b /\ m  -> IF Av(im) THEN im
                          ELSE IF Av(lo) /\ Av(mo) THEN lo + mo
                          ELSE IF Av(lo) THEN lo
                          ELSE None
      [] g /\ ~b /\ ~m -> IF Av(lo) THEN lo ELSE None

Parsed(x)  == x # None
NonZero(x) == x # None /\ x # 0

NoComponent(item) ==
    item.has_game # "Y" /\ item.has_box # "Y" /\ item.has_manual # "Y"

\* C6: for every combination of the three flags and every set of tier
\* prices, _select_price_for_item returns the price of the precedence table
\* (a tier counting as available either when it was parsed or only when it
\* was parsed with a non-zero amount), and (None, "No components") when no
\* component is present.
C6_SelectFollowsTable ==
    sel.stage = "output" =>
        /\ sel.out.price \in { TablePrice(sel.item, sel.prices, Parsed),
                               TablePrice(sel.item, sel.prices, NonZero) }
        /\ NoComponent(sel.item) =>
               sel.out = [price |-> None, desc |-> Str("No components")]

---------------------------------------------------------------------------
(* RGPClient._parse_search_results  (sources/rgp.py 488-636)               *)
(* Scores are hundredths: 100 is 1.0.  Python computes them in binary      *)
(* floating point; the model computes them exactly.                        *)

MaxRows == 2

\* region_lower: item region mapped by _map_region_to_pricecharting, lowered
SearchRegions == {"pal", "jp", ""}
\* url_region of _extract_platform_from_url
UrlRegions == {"pal", "jp", ""}

\* Values _calculate_title_similarity can return (0.0, word overlap up to
\* 0.7, containment 0.8 and more, 1.0 on equality)
TitleScores == {0, 30, 40, 100}
\* platform_score of lines 571-580
PlatformScores == {0, 80, 100}

\* A row of the results table: is_game is whether the row has a title cell
\* whose link holds "/game/" (other rows are skipped, lines 545-558).
SkippedRow == [is_game |-> FALSE, title_score |-> 0, url_region |-> "",
               platform_score |-> 0]
Rows == { SkippedRow } \cup
        [is_game : {TRUE}, title_score : TitleScores, url_region : UrlRegions,
         platform_score : PlatformScores]

RowLists == UNION { [1..n -> Rows] : n \in 0..MaxRows }

\* lines 582-593
RegionScore(region_lower, url_region) ==
    IF region_lower # "" THEN
        IF region_lower = url_region THEN 100
        ELSE IF region_lower = "pal" /\ url_region = "" THEN 30
        ELSE 0
    ELSE 50

\* line 596, times 100: title 0.5, region 0.3, platform 0.2
TotalScore(title_score, region_score, platform_score) ==
    title_score * 50 + region_score * 30 + platform_score * 20

\* the dict appended at lines 607-614; url is the row the link came from
Candidate(rows, i, region_lower) ==
    LET rs == RegionScore(region_lower, rows[i].url_region) IN
    [url          |-> i,
     score        |-> TotalScore(rows[i].title_score, rs, rows[i].platform_score),
     title_score  |-> rows[i].title_score,
     region_score |-> rs,
     platform_score |-> rows[i].platform_score]

RECURSIVE CandidatesFrom(_, _, _)
CandidatesFrom(rows, i, region_lower) ==
    IF i > Len(rows) THEN <<>>
    ELSE IF rows[i].is_game
         THEN <<Candidate(rows, i, region_lower)>>
              \o CandidatesFrom(rows, i + 1, region_lower)
         ELSE CandidatesFrom(rows, i + 1, region_lower)

\* key=lambda x: (x["score"], x["title_score"]): a's key is less than b's
SortKeyLessOnlyScore(a, b) == a.score < b.score
SortKeyLess(a, b) ==
    \/ a.score < b.score
    \/ a.score = b.score /\ a.title_score < b.title_score

\* list.sort(key=..., reverse=True) is stable: x goes behind every element
\* whose key is not less than its own.
RECURSIVE InsertDescending(_, _)
InsertDescending(sorted, x) ==
    IF sorted = <<>> THEN <<x>>
    ELSE IF SortKeyLess(Head(sorted), x)
         THEN <<x>> \o sorted
         ELSE <<Head(sorted)>> \o InsertDescending(Tail(sorted), x)

RECURSIVE SortDescending(_, _)
SortDescending(cands, sorted) ==
    IF cands = <<>> THEN sorted
    ELSE SortDescending(Tail(cands), InsertDescending(sorted, Head(cands)))

MinTitleScore == 30

\* Returns the url (row number) of the match, or None.
ParseSearchResults(rows, region_lower) ==
    LET candidates == CandidatesFrom(rows, 1, region_lower) IN
    IF candidates = <<>> THEN None
    ELSE LET best == SortDescending(candidates, <<>>)[1] IN
         IF best.title_score < MinTitleScore THEN None ELSE best.url

PsrIdle == psr = [stage |-> "idle"]

PsrInit ==
    \E rows \in RowLists, r \in SearchRegions :
        psr = [stage |-> "input", rows |-> rows, region |-> r]

ParseResults ==
    /\ psr.stage = "input"
    /\ psr' = [stage |-> "output", rows |-> psr.rows, region |-> psr.region,
               out |-> ParseSearchResults(psr.rows, psr.region)]


\* The candidates of the page and the ones no other candidate beats
PsrCandidates ==
    { Candidate(psr.rows, i, psr.region) :
        i \in { j \in 1..Len(psr.rows) : psr.rows[j].is_game } }
PsrBest ==
    { c \in PsrCandidates :
        \A d \in PsrCandidates :
            \/ d.score < c.score
            \/ d.score = c.score /\ d.title_score <= c.title_score }

\* C8: _parse_search_results returns a candidate with the highest composite
\* score 0.5*title + 0.3*region + 0.2*platform, the higher title similarity
\* deciding between equal composite scores, and returns no match exactly
\* when that best candidate's title similarity is below 0.3 or there is no
\* candidate.
C8_BestCandidate ==
    psr.stage = "output" =>
        /\ psr.out # None =>
              \E c \in PsrBest : c.url = psr.out /\ c.title_score >= 30
        /\ psr.out = None <=>
              (PsrCandidates = {} \/ \A c \in PsrBest : c.title_score < 30)

\* Two candidates tie on the composite score, the second row has the higher
\* title similarity and is returned.
C8_Witness ==
    /\ psr.stage = "output"
    /\ Len(psr.rows) = 2
    /\ psr.rows[1].is_game /\ psr.rows[2].is_game
    /\ Candidate(psr.rows, 1, psr.region).score
         = Candidate(psr.rows, 2, psr.region).score
    /\ psr.rows[1].title_score < psr.rows[2].title_score
    /\ psr.out = 2

\* _map_region_to_pricecharting (lines 220-227) followed by the lower() of
\* _parse_search_results: the search region of an item region
MapRegionToPricecharting(region) ==
    CASE region = "PAL"    -> "pal"
      [] region = "NTSC-J" -> "jp"
      [] region = "NTSC-U" -> ""
      [] OTHER             -> ""

\* The page has exactly two candidates, equal in title and platform score,
\* with a title score that can be accepted, and row i alone has the URL
\* region of the item region
AloneInRegion(i, region) ==
    /\ Len(psr.rows) = 2
    /\ psr.rows[1].is_game /\ psr.rows[2].is_game
    /\ psr.rows[1].title_score = psr.rows[2].title_score
    /\ psr.rows[1].title_score >= MinTitleScore
    /\ psr.rows[1].platform_score = psr.rows[2].platform_score
    /\ psr.region = MapRegionToPricecharting(region)
    /\ psr.rows[i].url_region = psr.region
    /\ psr.rows[3 - i].url_region # psr.region

\* C17: for the item regions PAL, NTSC-J and NTSC-U, when two candidates
\* have equal title and platform scores and exactly one of them has the URL
\* region of the item (pal, jp, no prefix), _parse_search_results returns
\* that candidate, whatever the order of the rows.
C17_RegionDecidesTie ==
    psr.stage = "output" =>
        \A region \in {"PAL", "NTSC-J", "NTSC-U"} : \A i \in 1..2 :
            AloneInRegion(i, region) => psr.out = i

\* C27: whenever at least one candidate of the search-results page has a
\* title similarity of 0.3 or more, _parse_search_results returns a match;
\* it returns no match only when every candidate is below the threshold.
C27_MatchWhenSimilar ==
    psr.stage = "output" =>
        /\ (\E c \in PsrCandidates : c.title_score >= MinTitleScore) =>
              psr.out # None
        /\ psr.out = None =>
              \A c \in PsrCandidates : c.title_score < MinTitleScore

---------------------------------------------------------------------------
(* RGPClient._rate_limit and RGPClient._make_request  (sources/rgp.py      *)
(* 68-168), called by NumCallers coroutines of one event loop.  Coroutines *)
(* interleave only at their awaits (a contended lock acquire, the sleep,   *)
(* the HTTP exchange, tenacity's backoff sleep), so the code between two   *)
(* awaits is one action; the clock advances between actions.               *)

NumCallers == 2
Interval == 2       \* sleep_seconds of every client, in ticks
MaxClock == 7
MaxAttempts == 3    \* stop_after_attempt(3)

Callers == 1..NumCallers

Outcomes == {"ok", "timeout", "connect_error", "404", "403", "http_error"}

\* Every outcome that raises
RetryableAll == Outcomes \ {"ok"}
\* retry_if_exception_type((httpx.TimeoutException, httpx.ConnectError))
Retryable == {"timeout", "connect_error"}

\* What the attempt raises (lines 152-167)
Raised(outcome) ==
    CASE outcome = "ok"            -> "none"
      [] outcome = "timeout"       -> "TimeoutException"
      [] outcome = "connect_error" -> "ConnectError"
      [] outcome = "404"           -> "ValueError"
      [] outcome = "403"           -> "ValueError"
      [] outcome = "http_error"    -> "HTTPStatusError"

\* The except clauses of get_price (lines 980-1008): every exception of the
\* request becomes a failed PriceResult.
GetPriceOnException(exc) ==
    [kind |-> "PriceResult", success |-> FALSE, price_eur |-> None,
     error |-> CASE exc = "HTTPStatusError"   -> "HTTP status"
                 [] exc = "TimeoutException"  -> "Request timeout"
                 [] exc = "ConnectError"      -> "Connection error"
                 [] exc = "ValueError"        -> "Page not found / Access forbidden"
                 [] OTHER                     -> "Unexpected error"]

NoReturn == [at |-> None, gap |-> None]

NetIdle ==
    /\ now = 0
    /\ last_request_time = 0
    /\ lock = [holder |-> 0, waiters |-> <<>>]
    /\ req = <<>>
    /\ returns = NoReturn

NetInit ==
    /\ now = 1
    /\ last_request_time = 0
    /\ lock = [holder |-> 0, waiters |-> <<>>]
    /\ req = [c \in Callers |->
                [pc |-> "start", attempt |-> 1, wake |-> 0, outcome |-> "none",
                 retried_after |-> {}, result |-> [kind |-> "pending"]]]
    /\ returns = NoReturn

\* A limiter without its lock
LockFreeIgnoringHolder(l) == TRUE
\* asyncio.Lock.acquire takes the lock without suspending only when it is
\* free and nobody waits for it.
LockFree(l) == l.holder = 0 /\ l.waiters = <<>>

\* _rate_limit returns to _make_request, which goes on to client.get: the
\* HTTP attempt starts.
Returned(c) ==
    /\ returns' = [at |-> now,
                   gap |-> IF returns.at = None THEN None ELSE now - returns.at]
    /\ req' = [req EXCEPT ![c].pc = "http"]

\* A return that would leave the "async with" block without releasing
HeldOnReturn(c, waiters) == [holder |-> c, waiters |-> waiters]
\* The "return" of line 118 leaves the "async with" block of line 111: the
\* lock is released
ReleasedOnReturn(c, waiters) == [holder |-> 0, waiters |-> waiters]

\* Lines 112-132 up to the first await, run by c holding the lock.
CheckElapsed(c, waiters) ==
    IF last_request_time = 0 THEN
        \* first request ever: record the time and return
        /\ last_request_time' = now
        /\ lock' = ReleasedOnReturn(c, waiters)
        /\ Returned(c)
    ELSE IF now - last_request_time < Interval THEN
        \* await asyncio.sleep(wait_time), the lock held
        /\ req' = [req EXCEPT ![c].pc = "sleeping",
                              ![c].wake = now + (Interval - (now - last_request_time))]
        /\ lock' = [holder |-> c, waiters |-> waiters]
        /\ UNCHANGED <<last_request_time, returns>>
    ELSE
        /\ last_request_time' = now
        /\ lock' = [holder |-> 0, waiters |-> waiters]
        /\ Returned(c)

\* _make_request is called (first attempt, or by tenacity after its backoff
\* sleep) and enters _rate_limit.
EnterRateLimit(c) ==
    /\ req[c].pc \in {"start", "backoff"}
    /\ IF LockFree(lock)
       THEN CheckElapsed(c, lock.waiters)
       ELSE /\ lock' = [lock EXCEPT !.waiters = Append(@, c)]
            /\ req' = [req EXCEPT ![c].pc = "wait_lock"]
            /\ UNCHANGED <<last_request_time, returns>>
    /\ UNCHANGED <<now, notNet>>

\* The lock was released and c is the first waiter.
AcquireLock(c) ==
    /\ req[c].pc = "wait_lock"
    /\ lock.holder = 0
    /\ lock.waiters # <<>> /\ Head(lock.waiters) = c
    /\ CheckElapsed(c, Tail(lock.waiters))
    /\ UNCHANGED <<now, notNet>>

\* asyncio.sleep is over: the timestamp is updated after the sleep, just
\* before the lock is released (line 132).
WakeUp(c) ==
    /\ req[c].pc = "sleeping"
    /\ now >= req[c].wake
    /\ last_request_time' = now
    /\ lock' = [lock EXCEPT !.holder = 0]
    /\ Returned(c)
    /\ UNCHANGED <<now, notNet>>

\* The HTTP exchange ends.  tenacity retries a retryable exception while
\* fewer than MaxAttempts attempts were made, and re-raises otherwise.
HttpResponse(c, outcome) ==
    /\ req[c].pc = "http"
    /\ IF outcome \in Retryable /\ req[c].attempt < MaxAttempts
       THEN req' = [req EXCEPT ![c].pc = "backoff",
                               ![c].attempt = @ + 1,
                               ![c].outcome = outcome,
                               ![c].retried_after = @ \cup {outcome}]
       ELSE req' = [req EXCEPT ![c].pc = "done",
                               ![c].outcome = outcome,
                               ![c].result =
                                   IF outcome = "ok" THEN [kind |-> "response"]
                                   ELSE GetPriceOnException(Raised(outcome))]
    /\ UNCHANGED <<now, last_request_time, lock, returns, notNet>>

Tick ==
    /\ now < MaxClock
    /\ now' = now + 1
    /\ UNCHANGED <<last_request_time, lock, req, returns, notNet>>

\* Time passes: up to MaxClock while nobody sleeps, and for as long as a
\* caller's asyncio.sleep has not reached its end
Elapse ==
    /\ \/ now < MaxClock
       \/ \E c \in DOMAIN req : req[c].pc = "sleeping" /\ now < req[c].wake
    /\ now' = now + 1
    /\ UNCHANGED <<last_request_time, lock, req, returns, notNet>>

NextNet ==
    \/ \E c \in Callers : EnterRateLimit(c)
    \/ \E c \in Callers : AcquireLock(c)
    \/ \E c \in Callers : WakeUp(c)
    \/ \E c \in Callers, o \in Outcomes : HttpResponse(c, o)
    \/ Tick

\* Callers inside the critical section of _rate_limit at an await
InCriticalSection == { c \in DOMAIN req : req[c].pc = "sleeping" }

\* C2: any two returns of _rate_limit (the starts of two catalog HTTP
\* attempts, retries included) are at least Interval apart, whatever the
\* interleaving of the callers, and at most one caller at a time is inside
\* the section that checks the elapsed time, sleeps and updates the shared
\* timestamp; that caller holds the lock.
C2_ReturnsSpaced ==
    /\ returns.gap # None => returns.gap >= Interval
    /\ Cardinality(InCriticalSection) <= 1
    /\ \A c \in InCriticalSection : lock.holder = c

\* C2 witness: a caller that had to queue for the lock and then sleep has
\* just returned, exactly Interval after the previous return, while the
\* other caller is on the network.
C2_Witness ==
    /\ returns.gap = Interval
    /\ returns.at = now
    /\ \E c \in DOMAIN req :
          /\ req[c].pc = "http" /\ req[c].wake = now
          /\ \E d \in DOMAIN req : d # c /\ req[d].pc = "http" /\ req[d].attempt = 2

\* The callers inside _rate_limit: queued for the lock, or asleep with it
InRateLimit(c) == req[c].pc \in {"wait_lock", "sleeping"}

\* Some caller inside _rate_limit can go on now or once time has passed:
\* the holder of the lock is asleep in it, or the lock is free and the
\* first caller of the queue is there to take it.
LimiterCanProceed ==
    /\ lock.holder # 0 => req[lock.holder].pc = "sleeping"
    /\ \A c \in DOMAIN req :
          req[c].pc = "wait_lock" =>
              /\ \E i \in 1..Len(lock.waiters) : lock.waiters[i] = c
              /\ lock.holder = 0 => req[Head(lock.waiters)].pc = "wait_lock"

\* C30: under fair scheduling every call of the shared catalog limiter's
\* _rate_limit() returns, whatever the number of concurrent callers: the
\* lock is released on every path, the first-request early return
\* included, no caller waits forever and no state is reached in which the
\* callers inside _rate_limit are all blocked.
C30_RateLimitReturns ==
    /\ []LimiterCanProceed
    /\ \A c \in Callers : InRateLimit(c) ~> (req[c].pc = "http")

\* C30 witness: the clock is past MaxClock, a caller has just returned from
\* its sleep and released the lock while another caller is queued for it.
C30_Witness ==
    /\ now > MaxClock /\ returns.at = now
    /\ lock.holder = 0 /\ lock.waiters # <<>>
    /\ \E c \in DOMAIN req :
          /\ req[c].pc = "http" /\ req[c].wake = now
          /\ \E d \in DOMAIN req : d # c /\ req[d].pc = "wait_lock"

StatusErrors == {"404", "403", "http_error"}

\* C9: a catalog request is attempted at most MaxAttempts (3) times, a
\* further attempt is made only after a timeout or a connection error, and
\* a 403, a 404 or another HTTP error status ends the request at once with
\* a failed PriceResult.
C9_BoundedRetry ==
    \A c \in DOMAIN req :
        /\ req[c].attempt <= 3
        /\ req[c].retried_after \subseteq {"timeout", "connect_error"}
        /\ req[c].pc \in {"backoff", "wait_lock", "sleeping"} /\ req[c].attempt > 1
              => req[c].outcome \in {"timeout", "connect_error"}
        /\ req[c].outcome \in StatusErrors =>
              /\ req[c].pc = "done"
              /\ req[c].result.kind = "PriceResult"
              /\ req[c].result.success = FALSE
        /\ req[c].pc = "done" /\ req[c].outcome \in {"timeout", "connect_error"} =>
              /\ req[c].attempt = 3
              /\ req[c].result.kind = "PriceResult"
              /\ req[c].result.success = FALSE

\* C9 witness: one request gave up after three attempts that timed out or
\* could not connect, the other ended on its first attempt with a 403.
C9_Witness ==
    /\ req # <<>>
    /\ req[1].pc = "done" /\ req[1].attempt = 3 /\ req[1].outcome = "timeout"
    /\ req[1].retried_after = {"timeout", "connect_error"}
    /\ req[2].pc = "done" /\ req[2].attempt = 1 /\ req[2].outcome = "403"

---------------------------------------------------------------------------
(* PriceCache  (cache.py 69-141): entries with a value, an expiry date and *)
(* a hit counter, read with time.time() as the date.                       *)

Titles == {"t1"}
GameItems == [title : Titles, has_game : {"Y", "N"}, has_box : {"Y", "N"},
              has_manual : {"Y", "N"}]

\* A loose game, a game with its box, a complete game
ItemSamples ==
    { i \in GameItems :
        /\ i.has_game = "Y"
        /\ i.has_manual = "Y" => i.has_box = "Y" }

\* GameItem.packaging_state (models.py 308-315)
PackagingStateOf(item) ==
    IF item.has_game # "Y" THEN "unknown"
    ELSE IF item.has_box = "Y" /\ item.has_manual = "Y" THEN "cib"
    ELSE "loose"

\* GameItem.is_processable (models.py 317-320)
IsProcessable(item) == item.has_game = "Y"

\* build_cache_key of the two clients: platform, title and region are the
\* item's title here; the language of the auction key is fixed by the
\* configuration.
CacheKeyOf(ns, item) == <<ns, item.title, PackagingStateOf(item)>>
CacheKeys == { <<ns, t, p>> : ns \in {"ebay", "rgp"}, t \in Titles,
                              p \in {"loose", "cib", "unknown"} }

MaxDate == 1
TtlEbay == 1        \* TTL_EBAY, in dates of the model
TtlRgp == 1         \* TTL_RGP, in dates of the model

NoEntry == [present |-> FALSE]
EmptyCache == [k \in CacheKeys |-> NoEntry]

\* A cache that never answers
NeverHit(c, k) == FALSE
\* PriceCache.get: the row is selected only if expires_at > now
CacheHit(c, k) == c[k].present /\ c[k].expires_at > date
\* ... and a hit increments the row's hit_count (lines 94-103)
CacheAfterGet(c, k) ==
    IF CacheHit(c, k) THEN [c EXCEPT ![k].hit_count = @ + 1] ELSE c
\* PriceCache.set: INSERT OR REPLACE, hit_count 0 (lines 109-141)
CacheSet(c, k, v, ttl) ==
    [c EXCEPT ![k] = [present |-> TRUE, value |-> v,
                      expires_at |-> date + ttl, hit_count |-> 0]]

---------------------------------------------------------------------------
(* Money.  Amounts are multiples of 6 cents so that the mean of up to      *)
(* three of them is a whole number of cents.                               *)

RoundHalfUp(num, den) == (2 * num + den) \div (2 * den)

\* FXConverter.convert to EUR with the rates of FALLBACK_RATES (fx.py
\* 12-25, 123-163): the amount itself for EUR, else amount * rate quantized
\* to cents, half up.
RatePercent(currency) ==
    CASE currency = "GBP" -> 117
      [] currency = "USD" -> 92
      [] currency = "EUR" -> 100
ConvertToEur(amount, currency) ==
    IF currency = "EUR" THEN amount
    ELSE RoundHalfUp(amount * RatePercent(currency), 100)

---------------------------------------------------------------------------
(* EbayClient.search_sold_listings  (sources/ebay.py 252-441)              *)

MaxResults == 2     \* max_results (get_ebay_price leaves it at its default)
MaxRaw == 1         \* most items of one response that pass filter_listing
MaxCalls == 2       \* client calls in a row on one cache

\* The items of a response that pass filter_listing, as _parse_item
\* returns them: an empty price text is Decimal("0"), a missing shipping
\* cost is None.  They are three sold listings of the site (their title and
\* url are left out): a record that comes back in the responses of two
\* strategies is the same listing found by both searches.
RawItems ==
    { [price |-> 0,    currency |-> "EUR", shipping_cost |-> 600],
      [price |-> 1200, currency |-> "EUR", shipping_cost |-> 0],
      [price |-> 1200, currency |-> "GBP", shipping_cost |-> 600] }

\* A passing item priced in a currency that is neither in the loaded rates
\* nor in FALLBACK_RATES: convert raises ValueError (fx.py 150-154)
UnknownCurrencyItem == [price |-> 1200, currency |-> "XXX", shipping_cost |-> 0]
ConvertRaises(raw) == raw.currency \notin {"EUR", "GBP", "USD"}

Responses ==
    UNION { [1..n -> RawItems \cup {UnknownCurrencyItem}] : n \in 0..MaxRaw }

\* _convert_item_prices (lines 216-250)
ConvertItemPrices(raw, include_shipping) ==
    [price |-> raw.price, currency |-> raw.currency,
     shipping_cost |-> raw.shipping_cost,
     price_eur |-> ConvertToEur(raw.price, raw.currency),
     shipping_eur |-> IF include_shipping /\ Truthy(raw.shipping_cost)
                      THEN ConvertToEur(raw.shipping_cost, raw.currency)
                      ELSE None]

\* SoldListing.total_eur (models.py 339-346)
TotalEur(lst) ==
    IF lst.price_eur = None THEN None
    ELSE IF Truthy(lst.shipping_eur) THEN lst.price_eur + lst.shipping_eur
    ELSE lst.price_eur

Strategies == <<"strict", "relaxed_language", "relaxed_packaging">>

\* A search that never has enough listings
NeverEnough(n, max_results) == FALSE
\* "if len(filtered_listings) >= max_results: break" (lines 365-370)
Enough(n, max_results) == n >= max_results

\* The loop over the raw items of one response (lines 352-366): the
\* listings held when it ends, normally or at the item whose conversion
\* raises
RECURSIVE FilterAndConvert(_, _, _, _)
FilterAndConvert(filtered, raw_items, include_shipping, max_results) ==
    IF raw_items = <<>> THEN filtered
    ELSE IF ConvertRaises(Head(raw_items)) THEN filtered
    ELSE LET added == Append(filtered,
                             ConvertItemPrices(Head(raw_items), include_shipping))
         IN  IF Enough(Len(added), max_results) THEN added
             ELSE FilterAndConvert(added, Tail(raw_items), include_shipping,
                                   max_results)

\* ... and whether it ends by a raise: the conversion of an item reached
\* before max_results listings are held raises
RECURSIVE ConversionRaises(_, _, _)
ConversionRaises(held, raw_items, max_results) ==
    IF raw_items = <<>> THEN FALSE
    ELSE IF ConvertRaises(Head(raw_items)) THEN TRUE
    ELSE IF Enough(held + 1, max_results) THEN FALSE
    ELSE ConversionRaises(held + 1, Tail(raw_items), max_results)

\* The summand of one listing in the average (lines 388-392)
Summand(lst, include_shipping) ==
    IF include_shipping /\ Truthy(TotalEur(lst)) THEN TotalEur(lst)
    ELSE lst.price_eur

\* sum(... for lst in result.listings if lst.price_eur)
RECURSIVE SumOfListings(_, _)
SumOfListings(listings, include_shipping) ==
    IF listings = <<>> THEN 0
    ELSE (IF Truthy(Head(listings).price_eur)
          THEN Summand(Head(listings), include_shipping) ELSE 0)
         + SumOfListings(Tail(listings), include_shipping)

FirstN(s, n) == IF Len(s) <= n THEN s ELSE SubSeq(s, 1, n)

\* The header of result.details (lines 396-400): of the options of the
\* search it names the shipping one
EbayDetails(include_shipping) ==
    [shipping |-> IF include_shipping THEN "included" ELSE "excluded"]

\* Lines 380-441: the result of the search and the value it caches
EbayResult(filtered, strategy_used, include_shipping, max_results, error) ==
    IF filtered # <<>> THEN
        LET listings == FirstN(filtered, max_results)
        IN  [success |-> TRUE, listings |-> listings,
             num_results |-> Len(listings), strategy_used |-> strategy_used,
             price_eur |-> SumOfListings(listings, include_shipping)
                               \div Len(listings),
             details |-> EbayDetails(include_shipping),
             error |-> error]
    ELSE [success |-> FALSE, listings |-> <<>>, num_results |-> 0,
          strategy_used |-> "", price_eur |-> None,
          details |-> [text |-> "No results found"],
          error |-> "No matching sold listings found after filtering"]

\* Lines 418-436
EbayCacheValue(result) ==
    [price_eur |-> IF Truthy(result.price_eur) THEN result.price_eur ELSE None,
     num_results |-> result.num_results,
     details |-> result.details,
     strategy_used |-> result.strategy_used]

\* Lines 290-297
EbayFromCache(v) ==
    [success |-> TRUE, listings |-> <<>>, num_results |-> v.num_results,
     strategy_used |-> v.strategy_used,
     price_eur |-> IF Truthy(v.price_eur) THEN v.price_eur ELSE None,
     details |-> v.details,
     error |-> ""]

\* The result of a call that has not returned
NoResult == [success |-> FALSE, price_eur |-> None, error |-> "pending"]

\* No call in progress; the options of the auction searches of the run
IdleCall(include_shipping, max_results) ==
    [client |-> "none", pc |-> "idle", n |-> 0,
     include_shipping |-> include_shipping, max_results |-> max_results]

ClientsIdle ==
    /\ cache = EmptyCache
    /\ date = 0
    /\ cl = IdleCall(FALSE, 1)
    /\ http = 0
    /\ ebay_last = 0

\* What a call may not touch on a cache hit, recorded when the call starts
Snapshot(limiter) ==
    [date |-> date, ebay_last |-> limiter,
     last_request_time |-> last_request_time, cache |-> cache]

\* EbayClient._rate_limit (lines 75-81) for one caller: the time at which it
\* returns.
EbayRateLimit(last) ==
    IF now - last < Interval THEN last + Interval ELSE now

\* _rate_limit has returned at time t and the request goes out: the time of
\* the request and its distance to the previous request of the run.
RequestAt(t) ==
    [at |-> t, gap |-> IF returns.at = None THEN None ELSE t - returns.at]

\* get_ebay_price makes a new client (lines 475-480) and calls
\* search_sold_listings: the cache check (lines 281-297).
SearchSoldListings(item) ==
    /\ cl.pc \in {"idle", "done"}
    /\ cl.n < MaxCalls
    /\ LET k == CacheKeyOf("ebay", item)
           limiter == 0
           call == [client |-> "ebay", n |-> cl.n + 1, item |-> item, key |-> k,
                    include_shipping |-> cl.include_shipping,
                    max_results |-> cl.max_results,
                    hit |-> CacheHit(cache, k), pre |-> Snapshot(limiter),
                    idx |-> 1, attempt |-> 1, queried |-> <<>>, counts |-> <<>>,
                    raised |-> <<>>,
                    listings |-> <<>>, prev |-> <<>>, strategy_used |-> "none",
                    error |-> "", pc |-> "strategy", result |-> NoResult]
       IN  /\ ebay_last' = limiter
           /\ cache' = CacheAfterGet(cache, k)
           /\ cl' = IF CacheHit(cache, k)
                    THEN [call EXCEPT !.pc = "done",
                                      !.result = EbayFromCache(cache[k].value)]
                    ELSE call
    /\ http' = 0
    /\ UNCHANGED <<date, now, last_request_time, lock, req, returns, sel, psr, eng, api, fx, fn>>

\* The strategy loop goes on to the next strategy, or ends (lines 368-441)
EndOfStrategy(call, stop) ==
    IF stop \/ call.idx = Len(Strategies)
    THEN LET result == EbayResult(call.listings, call.strategy_used,
                                  call.include_shipping, call.max_results,
                                  call.error)
         IN  /\ cl' = [call EXCEPT !.pc = "done", !.result = result]
             /\ cache' = IF result.success
                         THEN CacheSet(cache, call.key, EbayCacheValue(result),
                                       TtlEbay)
                         ELSE cache
    ELSE /\ cl' = [call EXCEPT !.idx = @ + 1, !.attempt = 1,
                               !.prev = call.listings]
         /\ UNCHANGED cache

\* An except clause that would leave the strategy loop
ExceptBreak(call) == EndOfStrategy(call, TRUE)
\* "except Exception as e: result.error = str(e); continue" (lines 373-375),
\* call.error holding str(e): the loop goes on to the next strategy
ExceptContinue(call) == EndOfStrategy(call, FALSE)

\* One attempt of _make_request for the current strategy (lines 122-133) and,
\* when it returns a response, the rest of the strategy (lines 345-378).
\* outcome: "ok", "http_error" (any exception of the exchange, retried) or
\* "bad_ack" (_parse_response raises).  With "ok" the conversion of an item
\* of the response may raise.
EbayAttempt(outcome, response) ==
    /\ cl.client = "ebay" /\ cl.pc = "strategy"
    /\ EbayRateLimit(ebay_last) <= MaxClock
    /\ now' = EbayRateLimit(ebay_last)
    /\ ebay_last' = EbayRateLimit(ebay_last)
    /\ returns' = RequestAt(EbayRateLimit(ebay_last))
    /\ http' = http + 1
    /\ LET name == Strategies[cl.idx]
           call == [cl EXCEPT !.queried = IF cl.attempt = 1
                                          THEN Append(@, name) ELSE @]
       IN  CASE outcome = "http_error" /\ cl.attempt < 3 ->
                   /\ response = <<>>
                   /\ cl' = [call EXCEPT !.attempt = @ + 1]
                   /\ UNCHANGED cache
             [] outcome = "http_error" /\ cl.attempt >= 3 ->
                   /\ response = <<>>
                   /\ ExceptContinue([call EXCEPT !.error = "request failed",
                                          !.counts = Append(@, Len(cl.listings)),
                                          !.raised = Append(@, TRUE)])
             [] outcome = "bad_ack" ->
                   /\ response = <<>>
                   /\ ExceptContinue([call EXCEPT !.error = "eBay API error",
                                          !.counts = Append(@, Len(cl.listings)),
                                          !.raised = Append(@, TRUE)])
             [] outcome = "ok" ->
                   LET filtered == FilterAndConvert(cl.listings, response,
                                       cl.include_shipping, cl.max_results)
                       stop == Enough(Len(filtered), cl.max_results)
                   IN  IF ConversionRaises(Len(cl.listings), response,
                                           cl.max_results)
                       THEN ExceptContinue(
                                [call EXCEPT !.listings = filtered,
                                             !.error = "Unknown currency",
                                             !.counts = Append(@, Len(filtered)),
                                             !.raised = Append(@, TRUE)])
                       ELSE EndOfStrategy(
                                [call EXCEPT !.listings = filtered,
                                             !.counts = Append(@, Len(filtered)),
                                             !.raised = Append(@, FALSE),
                                             !.strategy_used =
                                                 IF stop \/ Len(filtered) > 0
                                                 THEN name ELSE @],
                                stop)
    /\ UNCHANGED <<date, last_request_time, lock, req, sel, psr, eng, api, fx, fn>>

---------------------------------------------------------------------------
(* RGPClient.get_price  (sources/rgp.py 842-1010) for one caller           *)

\* The product pages: the tier prices _parse_game_page extracts.  Its
\* pattern pass keeps a price of 0 (lines 660-690).
PagePrices ==
    { p \in PriceDicts :
        /\ \A t \in Tiers \ {"loose_price"} : p[t] # 0
        /\ \A t \in Tiers \ {"loose_price", "cib_price"} :
              (p[t] = None) <=> (p["box_only_price"] = None) }

\* The search-results pages
ResultPages == { rows \in RowLists : Len(rows) <= 1 }

\* The responses of the catalog site: a product page (also the target of a
\* redirected search) or a search-results page
Pages ==
    { [kind |-> "game", prices |-> p, rows |-> <<>>] : p \in PagePrices }
      \cup
    { [kind |-> "results", prices |-> [t \in Tiers |-> None], rows |-> r] :
          r \in ResultPages }
NoPage == [kind |-> "none"]

\* "if not prices" (line 908): the dictionary has no entry
NoPrices(prices) == \A t \in Tiers : prices[t] = None

\* RGPClient._rate_limit for one caller: the time at which it returns
RgpRateLimit(last) ==
    IF last = 0 THEN now
    ELSE IF now - last < Interval THEN last + Interval
    ELSE now

\* result.details of a lookup that read a product page (lines 942-956): the
\* tier prices, a tier without price or with the price 0 being left out or
\* shown as N/A, and the description of the selected price.
PageDetails(prices, desc) ==
    [prices |-> [t \in Tiers |-> IF Truthy(prices[t]) THEN prices[t] ELSE None],
     selected |-> desc]
\* result.details of a lookup that failed before the selection
TextDetails(text) == [text |-> text]

\* Lines 866-873
RgpFromCache(v) ==
    [success |-> TRUE,
     price_eur |-> IF Truthy(v.price_eur) THEN v.price_eur ELSE None,
     loose_price |-> IF Truthy(v.loose_price) THEN v.loose_price ELSE None,
     cib_price |-> IF Truthy(v.cib_price) THEN v.cib_price ELSE None,
     details |-> v.details,
     error |-> ""]

\* Lines 960-977
RgpCacheValue(result) ==
    [price_eur |-> IF Truthy(result.price_eur) THEN result.price_eur ELSE None,
     loose_price |-> IF Truthy(result.loose_price) THEN result.loose_price
                     ELSE None,
     cib_price |-> IF Truthy(result.cib_price) THEN result.cib_price ELSE None,
     details |-> result.details]

\* Lines 906-925: the result read off a product page (still in USD)
RgpResult(item, prices) ==
    IF NoPrices(prices)
    THEN [success |-> FALSE, price_eur |-> None, loose_price |-> None,
          cib_price |-> None,
          details |-> TextDetails("Found the game but couldn't extract prices"),
          error |-> "Could not parse prices from game page"]
    ELSE LET selected == SelectPriceForItem(item, prices)
         IN  [success |-> selected.price # None,
              price_eur |-> selected.price,
              loose_price |-> prices["loose_price"],
              cib_price |-> prices["cib_price"],
              details |-> PageDetails(prices, selected.desc),
              error |-> ""]

RgpFailed(error) ==
    [success |-> FALSE, price_eur |-> None, loose_price |-> None,
     cib_price |-> None, details |-> TextDetails(error), error |-> error]

\* get_price is called: the cache check (lines 857-873)
GetPrice(item) ==
    /\ cl.pc \in {"idle", "done"}
    /\ cl.n < MaxCalls
    /\ LET k == CacheKeyOf("rgp", item)
           call == [client |-> "rgp", n |-> cl.n + 1, item |-> item, key |-> k,
                    include_shipping |-> cl.include_shipping,
                    max_results |-> cl.max_results,
                    hit |-> CacheHit(cache, k), pre |-> Snapshot(ebay_last),
                    attempt |-> 1, pc |-> "search", requests |-> <<>>,
                    landed |-> "none", result |-> NoResult]
       IN  /\ cache' = CacheAfterGet(cache, k)
           /\ cl' = IF CacheHit(cache, k)
                    THEN [call EXCEPT !.pc = "done",
                                      !.result = RgpFromCache(cache[k].value)]
                    ELSE call
    /\ http' = 0
    /\ UNCHANGED <<date, ebay_last, now, last_request_time, lock, req, returns,
                   sel, psr, eng, api, fx, fn>>

\* get_price returns the result read off a product page, caching a success
ReturnPrices(call, prices) ==
    LET result == RgpResult(call.item, prices)
    IN  /\ cl' = [call EXCEPT !.pc = "done", !.result = result]
        /\ cache' = IF result.success
                    THEN CacheSet(cache, call.key, RgpCacheValue(result), TtlRgp)
                    ELSE cache

\* A test that takes no final URL for a product page
NeverDetailPage(page) == FALSE
\* _is_game_detail_page (lines 324-335) on the final URL of the search: the
\* URL holds the product-page marker and no search marker
IsGameDetailPage(page) == page.kind = "game"

\* One attempt of _make_request for the search or the product page and,
\* when it returns a response, get_price up to its next request or its end.
RgpAttempt(outcome, page) ==
    /\ cl.client = "rgp" /\ cl.pc \in {"search", "detail"}
    /\ RgpRateLimit(last_request_time) <= MaxClock
    /\ now' = RgpRateLimit(last_request_time)
    /\ last_request_time' = RgpRateLimit(last_request_time)
    /\ http' = http + 1
    /\ LET \* the calls of _make_request so far
           call == [cl EXCEPT !.requests = IF cl.attempt = 1
                                           THEN Append(@, cl.pc) ELSE @]
       IN
       CASE outcome \in Retryable /\ cl.attempt < MaxAttempts ->
               /\ page = NoPage
               /\ cl' = [call EXCEPT !.attempt = @ + 1]
               /\ UNCHANGED cache
         [] outcome # "ok" /\ ~(outcome \in Retryable /\ cl.attempt < MaxAttempts) ->
               /\ page = NoPage
               /\ cl' = [call EXCEPT !.pc = "done",
                                     !.result = RgpFailed(
                                         GetPriceOnException(Raised(outcome)).error)]
               /\ UNCHANGED cache
         [] outcome = "ok" /\ cl.pc = "search" ->
               /\ page \in Pages
               /\ LET \* where the search landed
                      landed == IF page.kind = "game" THEN "product"
                                ELSE IF ParseSearchResults(page.rows, "pal") = None
                                THEN "no_match" ELSE "match"
                      here == [call EXCEPT !.landed = landed]
                  IN
                  IF IsGameDetailPage(page)
                  THEN \* redirected to the product page (lines 888-896)
                       ReturnPrices(here, page.prices)
                  ELSE IF ParseSearchResults(page.rows, "pal") = None
                  THEN /\ cl' = [here EXCEPT !.pc = "done",
                                    !.result = RgpFailed(
                                        "Game not found in search results")]
                       /\ UNCHANGED cache
                  ELSE /\ cl' = [here EXCEPT !.pc = "detail", !.attempt = 1]
                       /\ UNCHANGED cache
         [] outcome = "ok" /\ cl.pc = "detail" ->
               /\ page \in Pages /\ page.kind = "game"
               /\ ReturnPrices(call, page.prices)
    /\ UNCHANGED <<date, ebay_last, lock, req, returns, sel, psr, eng, api, fx, fn>>

\* The program is run again on the same cache file with the other value of
\* --include-shipping (__main__.py 131, 305, 370): the limiters start anew,
\* the cache table is the one the earlier run left.
NewRun(include_shipping) ==
    /\ cl.pc = "done" /\ cl.n < MaxCalls
    /\ include_shipping # cl.include_shipping
    /\ cl' = [IdleCall(include_shipping, cl.max_results) EXCEPT !.n = cl.n]
    /\ http' = 0 /\ ebay_last' = 0 /\ last_request_time' = 0
    /\ returns' = NoReturn
    /\ UNCHANGED <<cache, date, now, lock, req, sel, psr, eng, api, fx, fn>>

\* time.time() advances: cache entries age
AdvanceDate ==
    /\ date < MaxDate
    /\ date' = date + 1
    /\ UNCHANGED <<cache, cl, http, ebay_last, netVars, sel, psr, eng, api, fx, fn>>

---------------------------------------------------------------------------
(* PricingEngine.enrich_batch / enrich_item  (pricing.py 93-297).  A       *)
(* source lookup (get_ebay_price, get_rgp_price) is one step here: its     *)
(* result and its cache write are the ones of the client operators above.  *)

MaxItems == 2       \* longest batch

\* The items of a batch: the samples with a game, and one without
BatchItems ==
    ItemSamples \cup
    { [title |-> "t1", has_game |-> "N", has_box |-> "Y", has_manual |-> "N"] }
Batches == UNION { [1..n -> BatchItems] : n \in 0..MaxItems }

\* PricingConfig: the sources, include_non_game and the weights in tenths
Configs ==
    [only_source : {"ebay", "rgp", "both"}, include_non_game : BOOLEAN,
     weight_ebay : {7}, weight_rgp : {3}, include_shipping : {FALSE}]

\* result.ebay_result / result.rgp_result before the lookup: None
NotQueried == [present |-> FALSE, success |-> FALSE, price_eur |-> None]
SourceResult(r) ==
    [present |-> TRUE, success |-> r.success, price_eur |-> r.price_eur]
SourceFailed == [present |-> TRUE, success |-> FALSE, price_eur |-> None]

EngIdle == eng = [pc |-> "off"]

\* The listings an auction search may end with
FilteredLists ==
    UNION { [1..n -> { ConvertItemPrices(raw, FALSE) : raw \in RawItems }] :
                n \in 0..1 }

\* The product pages a catalog lookup may end on: those that list the
\* loose and the complete price only
CatalogPages ==
    { q \in Pages : q.kind = "game" /\ q.prices["box_only_price"] = None }

\* Line 103: the item is skipped
NeverSkipped(item, config) == FALSE
Skipped(item, config) == ~IsProcessable(item) /\ ~config.include_non_game

\* _calculate_weighted_average (lines 179-202)
CalculateWeightedAverage(ebay_result, rgp_result, config) ==
    LET ebay_price == IF ebay_result.present /\ ebay_result.success
                      THEN ebay_result.price_eur ELSE None
        rgp_price == IF rgp_result.present /\ rgp_result.success
                     THEN rgp_result.price_eur ELSE None
    IN  IF Truthy(ebay_price) /\ Truthy(rgp_price)
        THEN RoundHalfUp(ebay_price * config.weight_ebay
                           + rgp_price * config.weight_rgp, 10)
        ELSE IF Truthy(ebay_price) THEN RoundHalfUp(ebay_price, 1)
        ELSE IF Truthy(rgp_price) THEN RoundHalfUp(rgp_price, 1)
        ELSE None

\* _build_details (lines 235-244) formats the price of every successful
\* source with ":.2f" when the estimate is truthy; None has no such format
\* and the call raises TypeError.
BuildDetailsRaises(ebay_result, rgp_result, final) ==
    /\ Truthy(final)
    /\ \/ ebay_result.present /\ ebay_result.success
            /\ ebay_result.price_eur = None
       \/ rgp_result.present /\ rgp_result.success
            /\ rgp_result.price_eur = None

NoTally == [trace |-> <<>>, cache_reads |-> 0, conversions |-> 0]

EngInit ==
    \E config \in Configs, items \in Batches :
        eng = [pc |-> "called", config |-> config, items |-> items, i |-> 1,
               ebay_result |-> NotQueried, rgp_result |-> NotQueried,
               tally |-> NoTally, results |-> <<>>]

\* The loop of enrich_batch goes to the next item, or returns (lines 282-297)
NextItem(e, result) ==
    [e EXCEPT !.results = Append(@, result),
              !.i = @ + 1,
              !.pc = IF e.i + 1 > Len(e.items) THEN "returned" ELSE "item",
              !.ebay_result = NotQueried, !.rgp_result = NotQueried,
              !.tally = NoTally]

\* enrich_batch is called
EnrichBatch ==
    /\ eng.pc = "called"
    /\ eng' = [eng EXCEPT !.pc = IF eng.items = <<>> THEN "returned" ELSE "item"]
    /\ UNCHANGED <<cache, date, cl, http, ebay_last, netVars, sel, psr, api, fx, fn>>

\* enrich_item up to its first await (lines 93-107)
EnrichItem ==
    /\ eng.pc = "item"
    /\ LET item == eng.items[eng.i]
       IN  IF Skipped(item, eng.config)
           THEN eng' = NextItem(eng,
                           [game |-> item, skipped |-> TRUE,
                            ebay_result |-> NotQueried,
                            rgp_result |-> NotQueried,
                            final_estimate_eur |-> None, success |-> FALSE,
                            tally |-> eng.tally])
           ELSE eng' = [eng EXCEPT !.pc =
                            IF eng.config.only_source \in {"ebay", "both"}
                            THEN "ebay"
                            ELSE "rgp"]
    /\ UNCHANGED <<cache, date, cl, http, ebay_last, netVars, sel, psr, api, fx, fn>>

AfterAuction(e) ==
    [e EXCEPT !.pc = IF e.config.only_source \in {"rgp", "both"}
                     THEN "rgp" ELSE "combine",
              !.tally.trace = Append(@, "auction")]

\* Lines 109-130: get_ebay_price.  raised: the lookup raises before or
\* after its cache check; filtered: what a search that misses ends with.
QueryAuction(raised, filtered) ==
    /\ eng.pc = "ebay"
    /\ LET item == eng.items[eng.i]
           k == CacheKeyOf("ebay", item)
           after == AfterAuction(eng)
       IN  IF raised
           THEN /\ filtered = <<>>
                /\ eng' = [after EXCEPT !.ebay_result = SourceFailed]
                /\ UNCHANGED cache
           ELSE IF CacheHit(cache, k)
           THEN /\ filtered = <<>>
                /\ eng' = [after EXCEPT
                             !.ebay_result =
                                 SourceResult(EbayFromCache(cache[k].value)),
                             !.tally.cache_reads = @ + 1]
                /\ cache' = CacheAfterGet(cache, k)
           ELSE LET result == EbayResult(filtered, "strict",
                                  eng.config.include_shipping, MaxResults, "")
                IN  /\ eng' = [after EXCEPT
                                 !.ebay_result = SourceResult(result),
                                 !.tally.cache_reads = @ + 1]
                    /\ cache' = IF result.success
                                THEN CacheSet(cache, k, EbayCacheValue(result),
                                              TtlEbay)
                                ELSE cache
    /\ UNCHANGED <<date, cl, http, ebay_last, netVars, sel, psr, api, fx, fn>>

\* Lines 141-154: the catalog price is converted from USD when the lookup
\* succeeded with a truthy price; the conversion may raise.
ConvertCatalogResult(result, fx_raises) ==
    IF result.success /\ Truthy(result.price_eur)
    THEN IF fx_raises THEN SourceFailed
         ELSE [present |-> TRUE, success |-> TRUE,
               price_eur |-> ConvertToEur(result.price_eur, "USD")]
    ELSE SourceResult(result)

AfterCatalog(e, result, fx_raises) ==
    [e EXCEPT !.pc = "combine",
              !.rgp_result = ConvertCatalogResult(result, fx_raises),
              !.tally.trace = Append(@, "catalog"),
              !.tally.cache_reads = @ + 1,
              !.tally.conversions =
                  IF result.success /\ Truthy(result.price_eur)
                  THEN @ + 1 ELSE @]

\* Lines 132-164: get_rgp_price and the conversion.  page: the product page
\* a lookup that misses ends on, or NoPage when it fails before.
QueryCatalog(page, fx_raises) ==
    /\ eng.pc = "rgp"
    /\ LET item == eng.items[eng.i]
           k == CacheKeyOf("rgp", item)
       IN  IF CacheHit(cache, k)
           THEN /\ page = NoPage
                /\ eng' = AfterCatalog(eng, RgpFromCache(cache[k].value),
                                       fx_raises)
                /\ cache' = CacheAfterGet(cache, k)
           ELSE IF page = NoPage
           THEN /\ ~fx_raises
                /\ eng' = AfterCatalog(eng, RgpFailed("lookup failed"), FALSE)
                /\ UNCHANGED cache
           ELSE LET result == RgpResult(item, page.prices)
                IN  /\ eng' = AfterCatalog(eng, result, fx_raises)
                    /\ cache' = IF result.success
                                THEN CacheSet(cache, k, RgpCacheValue(result),
                                              TtlRgp)
                                ELSE cache
    /\ ~(fx_raises /\ eng'.tally.conversions = 0)
    /\ UNCHANGED <<date, cl, http, ebay_last, netVars, sel, psr, api, fx, fn>>

\* Lines 166-177 and the rest of the loop body of enrich_batch: nothing
\* catches what _build_details raises.
Combine ==
    /\ eng.pc = "combine"
    /\ LET final == CalculateWeightedAverage(eng.ebay_result, eng.rgp_result,
                                             eng.config)
           tally == [eng.tally EXCEPT !.trace = Append(@, "combine")]
       IN  IF BuildDetailsRaises(eng.ebay_result, eng.rgp_result, final)
           THEN eng' = [eng EXCEPT !.pc = "raised", !.tally = tally]
           ELSE eng' = NextItem(eng,
                           [game |-> eng.items[eng.i], skipped |-> FALSE,
                            ebay_result |-> eng.ebay_result,
                            rgp_result |-> eng.rgp_result,
                            final_estimate_eur |-> final,
                            success |-> final # None,
                            tally |-> tally])
    /\ UNCHANGED <<cache, date, cl, http, ebay_last, netVars, sel, psr, api, fx, fn>>

---------------------------------------------------------------------------
(* Claims on the two clients *)

IsPrefix(s, t) == Len(s) <= Len(t) /\ \A i \in 1..Len(s) : s[i] = t[i]

\* An auction search that missed the cache
EbayMiss == cl.client = "ebay" /\ ~cl.hit

\* C5: on a cache miss the strategies are searched in the order strict,
\* relaxed_language, relaxed_packaging, one search each; a strategy is
\* searched only while fewer than max_results listings are accumulated; the
\* listings found so far are retained; the search ends only when max_results
\* is reached or the three strategies are done, and then succeeds exactly
\* when it holds at least one listing.
C5_StrategyOrder ==
    EbayMiss =>
        /\ IsPrefix(cl.queried, Strategies)
        /\ \A i \in 1..Len(cl.counts) :
              i < Len(cl.queried) => cl.counts[i] < cl.max_results
        /\ IsPrefix(cl.prev, cl.listings)
        /\ \A i \in 1..Len(cl.counts) : \A j \in i..Len(cl.counts) :
              cl.counts[i] <= cl.counts[j]
        /\ cl.pc = "done" =>
              /\ Len(cl.counts) = Len(cl.queried)
              /\ \/ Len(cl.queried) = Len(Strategies)
                 \/ cl.counts[Len(cl.counts)] >= cl.max_results
              /\ cl.result.success <=> Len(cl.listings) >= 1
              /\ cl.result.success => cl.result.listings = cl.listings

\* C5 witness: the strict search found nothing, the second search one
\* listing, the third none; the search succeeds with that one listing,
\* fewer than max_results.
C5_Witness ==
    /\ EbayMiss /\ cl.pc = "done"
    /\ cl.queried = Strategies
    /\ cl.counts = <<0, 1, 1>>
    /\ cl.result.success /\ cl.result.num_results < cl.max_results

\* The converted shipping cost of a listing
ConvertedShipping(lst) ==
    IF lst.shipping_cost = None THEN 0
    ELSE ConvertToEur(lst.shipping_cost, lst.currency)

RECURSIVE ExpectedSum(_, _)
ExpectedSum(listings, include_shipping) ==
    IF listings = <<>> THEN 0
    ELSE Head(listings).price_eur
         + (IF include_shipping THEN ConvertedShipping(Head(listings)) ELSE 0)
         + ExpectedSum(Tail(listings), include_shipping)

\* C7: a successful non-cached auction search holds at most max_results
\* listings and its price is the arithmetic mean over those listings of the
\* converted price, plus the converted shipping when include_shipping is
\* set, zero prices and zero shipping costs included.
C7_MeanOverListings ==
    (EbayMiss /\ cl.pc = "done" /\ cl.result.success) =>
        /\ Len(cl.result.listings) <= cl.max_results
        /\ cl.result.price_eur * Len(cl.result.listings)
             = ExpectedSum(cl.result.listings, cl.include_shipping)

\* The call found an unexpired entry under its key when it started
HadLiveEntry ==
    /\ cl.client # "none"
    /\ cl.pre.cache[cl.key].present
    /\ cl.pre.cache[cl.key].expires_at > cl.pre.date

\* What both readings of C10 say of a call that found an unexpired entry:
\* it has returned the cached result, it sent no HTTP request, and the
\* limiter timestamps are the ones it found.
ReturnedFromCache ==
    /\ cl.pc = "done"
    /\ cl.result = IF cl.client = "ebay"
                   THEN EbayFromCache(cl.pre.cache[cl.key].value)
                   ELSE RgpFromCache(cl.pre.cache[cl.key].value)
    /\ http = 0
    /\ ebay_last = cl.pre.ebay_last
    /\ last_request_time = cl.pre.last_request_time

\* C10 as stated: on a hit the cached result is returned at once, without
\* HTTP request or limiter entry, and nothing is written to the cache.
C10_NothingWritten ==
    HadLiveEntry => ReturnedFromCache /\ cache = cl.pre.cache

\* C10 amended: on a hit the cached result is returned at once, without
\* HTTP request or limiter entry; no entry is added, replaced or removed and
\* the only write is the increment of the hit counter of the entry read.
C10_OnlyHitCounted ==
    HadLiveEntry =>
        /\ ReturnedFromCache
        /\ \A k \in CacheKeys \ {cl.key} : cache[k] = cl.pre.cache[k]
        /\ cache[cl.key] = [cl.pre.cache[cl.key] EXCEPT !.hit_count = @ + 1]

\* C10 witness: a catalog lookup has been answered from the entry that an
\* earlier lookup stored.
C10_Witness ==
    /\ HadLiveEntry
    /\ cl.client = "rgp" /\ cl.pc = "done" /\ cl.n = 2
    /\ cache[cl.key].hit_count = 1
    /\ cl.result.success

\* C12: during one run, two consecutive HTTP requests to the auction
\* source (retries, the strategies of one item, successive items) start at
\* least sleep_seconds apart.
C12_AuctionRequestsSpaced ==
    (cl.client = "ebay" /\ returns.gap # None) => returns.gap >= Interval

\* The strategies of the call whose response added a listing
Contributors ==
    { i \in 1..Len(cl.counts) :
        cl.counts[i] > (IF i = 1 THEN 0 ELSE cl.counts[i - 1]) }

\* C13: on every successful non-cached auction search, strategy_used is
\* the name of the last strategy whose response added a listing to the
\* result, never a strategy that added none and never "none".
C13_StrategyUsed ==
    (EbayMiss /\ cl.pc = "done" /\ cl.result.success) =>
        /\ cl.result.strategy_used # "none"
        /\ \E i \in Contributors :
              /\ \A j \in Contributors : j <= i
              /\ cl.result.strategy_used = Strategies[i]

\* A catalog lookup that has returned a price
CatalogPriced == cl.client = "rgp" /\ cl.pc = "done" /\ cl.result.success

\* The product pages whose tier prices are the ones listed in the details
\* of a result
PagesShownIn(details) ==
    { p \in PagePrices : PageDetails(p, details.selected).prices = details.prices }

\* C21: the price get_price returns for an item, from the network or from
\* a cache entry stored by an earlier lookup, is the price that
\* _select_price_for_item gives for the item's own has_game / has_box /
\* has_manual flags on the tier prices of the product.
C21_PriceOfOwnFlags ==
    CatalogPriced =>
        \E p \in PagesShownIn(cl.result.details) :
            cl.result.price_eur = SelectPriceForItem(cl.item, p).price

\* The sold listings a result holds
ListingsOf(result) == { result.listings[i] : i \in 1..Len(result.listings) }

\* C22: in the result of an auction search no sold listing is counted more
\* than once: a listing returned by the searches of several strategies is
\* once in the result's listings and once among the num_results listings
\* the price is averaged over.
C22_NoListingTwice ==
    (EbayMiss /\ cl.pc = "done" /\ cl.result.success) =>
        /\ \A i, j \in 1..Len(cl.result.listings) :
              i # j => cl.result.listings[i] # cl.result.listings[j]
        /\ cl.result.num_results = Cardinality(ListingsOf(cl.result))

C24_SuccessHasPrice ==
    (cl.client # "none" /\ cl.pc = "done" /\ cl.result.success) =>
        cl.result.price_eur # None

\* A catalog lookup that missed the cache
RgpMiss == cl.client = "rgp" /\ ~cl.hit

\* C25: on a cache miss get_price issues exactly one search request; when
\* the search lands on a product page that response is used and no further
\* request is issued; when a candidate of the results page is accepted
\* exactly one further request follows, for the detail page; when none is
\* accepted no further request is issued and the result is a failure.
C25_CatalogRequests ==
    RgpMiss =>
        /\ IsPrefix(cl.requests, <<"search", "detail">>)
        /\ cl.pc = "detail" => cl.landed = "match"
        /\ cl.pc = "done" =>
              /\ cl.requests # <<>>
              /\ cl.landed = "none" =>
                    cl.requests = <<"search">> /\ ~cl.result.success
              /\ cl.landed = "product" =>
                    /\ cl.requests = <<"search">>
                    /\ cl.result.error # "Game not found in search results"
              /\ cl.landed = "match" => cl.requests = <<"search", "detail">>
              /\ cl.landed = "no_match" =>
                    /\ cl.requests = <<"search">>
                    /\ ~cl.result.success
                    /\ cl.result.error = "Game not found in search results"

\* C25 witness: a candidate of the results page was accepted and the price
\* was read off its detail page, the second request of the lookup.
C25_Witness ==
    /\ RgpMiss /\ cl.pc = "done"
    /\ cl.landed = "match"
    /\ cl.requests = <<"search", "detail">>
    /\ cl.result.success

\* No tier or sum of tiers of the precedence table is available for the
\* item, a tier with the price 0 counting as available
NoPriceResolves(item, prices) == TablePrice(item, prices, Parsed) = None

\* C26: for every combination of component flags and tier prices for which
\* no price resolves, _select_price_for_item returns the price None with a
\* descriptive text (a string), and get_price, reading these prices off the
\* product page, returns success = false with that text in its details (a
\* failure is not written to the cache).
C26_NoPriceDescribed ==
    (sel.stage = "output" /\ NoPriceResolves(sel.item, sel.prices)) =>
        /\ sel.out.price = None
        /\ sel.out.desc.isStr
        /\ ~NoPrices(sel.prices) =>
              /\ ~RgpResult(sel.item, sel.prices).success
              /\ RgpResult(sel.item, sel.prices).details.selected = sel.out.desc

\* C28: a cached auction result is returned only to a search made with the
\* options of the search that stored it: a search never receives a price
\* computed under another value of include_shipping (the option the
\* details of the result name).
C28_CachedUnderSameOptions ==
    (cl.client = "ebay" /\ cl.pc = "done" /\ cl.hit) =>
        cl.result.details = EbayDetails(cl.include_shipping)

\* C29: every PriceResult with success = false that a source lookup
\* returns carries a non-empty error message, and every result with
\* success = true an empty one.
C29_ErrorIffFailed ==
    (cl.client # "none" /\ cl.pc = "done") =>
        (cl.result.success <=> cl.result.error = "")

---------------------------------------------------------------------------
(* Claims on the orchestrator *)

\* C1: whatever the items and the outcomes of the lookups and of the
\* currency conversion, enrich_batch raises nothing and returns exactly one
\* EnrichmentResult per item, in input order.
C1_BatchNeverAborts ==
    eng.pc # "off" =>
        /\ eng.pc # "raised"
        /\ Len(eng.results) <= Len(eng.items)
        /\ \A k \in 1..Len(eng.results) : eng.results[k].game = eng.items[k]
        /\ eng.pc = "returned" => Len(eng.results) = Len(eng.items)

Succeeded(source_result) == source_result.present /\ source_result.success

\* C3: the final estimate of an item is the half-up rounded weighted sum
\* of the two prices when both sources succeeded, the rounded price of the
\* one source that succeeded, and None with success = false when neither
\* did; success is true exactly when at least one source succeeded.
C3_FinalEstimate ==
    eng.pc # "off" =>
        \A k \in 1..Len(eng.results) :
            LET r == eng.results[k]
                auction == Succeeded(r.ebay_result)
                catalog == Succeeded(r.rgp_result)
            IN  /\ auction /\ catalog =>
                      r.final_estimate_eur =
                          RoundHalfUp(r.ebay_result.price_eur * eng.config.weight_ebay
                                      + r.rgp_result.price_eur * eng.config.weight_rgp,
                                      10)
                /\ auction /\ ~catalog =>
                      r.final_estimate_eur = r.ebay_result.price_eur
                /\ ~auction /\ catalog =>
                      r.final_estimate_eur = r.rgp_result.price_eur
                /\ ~auction /\ ~catalog =>
                      r.final_estimate_eur = None /\ ~r.success
                /\ r.success <=> (auction \/ catalog)

\* The steps of an item that is not skipped
ExpectedTrace(config) ==
    (IF config.only_source \in {"ebay", "both"} THEN <<"auction">> ELSE <<>>)
    \o (IF config.only_source \in {"rgp", "both"} THEN <<"catalog">> ELSE <<>>)
    \o <<"combine">>

\* C4: an item without a game, include_non_game being off, is skipped: no
\* lookup, no cache access, no conversion, success = false and no estimate.
\* Every other item goes through the auction lookup (when configured), then
\* the catalog lookup (when configured, whatever the auction gave), then the
\* combination, once each and in this order.
C4_ItemStateMachine ==
    eng.pc # "off" =>
        /\ \A k \in 1..Len(eng.results) :
              LET r == eng.results[k]
              IN  /\ r.skipped <=> (r.game.has_game # "Y"
                                      /\ ~eng.config.include_non_game)
                  /\ r.skipped =>
                        /\ r.tally = NoTally
                        /\ r.ebay_result = NotQueried
                        /\ r.rgp_result = NotQueried
                        /\ ~r.success /\ r.final_estimate_eur = None
                  /\ ~r.skipped => r.tally.trace = ExpectedTrace(eng.config)
        /\ IsPrefix(eng.tally.trace, ExpectedTrace(eng.config))
        /\ eng.pc = "ebay" => eng.tally.trace = <<>>
        /\ eng.pc = "rgp" =>
              /\ eng.rgp_result = NotQueried
              /\ eng.config.only_source = "both" =>
                    eng.tally.trace = <<"auction">> /\ eng.ebay_result.present
        /\ eng.tally.trace = <<"auction">> /\ eng.config.only_source = "both"
              => eng.pc = "rgp"
        /\ eng.pc = "combine" =>
              eng.tally.trace \o <<"combine">> = ExpectedTrace(eng.config)

\* C4 witness: a batch whose first item was skipped and whose second item
\* went through a failed auction lookup, a successful catalog lookup and the
\* combination.
C4_Witness ==
    /\ eng.pc = "returned" /\ Len(eng.results) = 2
    /\ eng.results[1].skipped
    /\ ~eng.results[2].skipped
    /\ eng.results[2].tally.trace = <<"auction", "catalog", "combine">>
    /\ ~eng.results[2].ebay_result.success
    /\ eng.results[2].rgp_result.success
    /\ eng.results[2].success

---------------------------------------------------------------------------
(* The PriceCache contract  (cache.py 69-187): set, get, delete,           *)
(* clear_namespace, clear_all and cleanup_expired called in any order on   *)
(* one table while time.time() advances.  An entry is keyed by the pair    *)
(* (namespace, sha256(key)); the hash is taken as injective.               *)

MaxOps == 4         \* PriceCache calls in a row
MaxTime == 2        \* latest date of the cache clock
Ttls == {1, 2}      \* ttl_hours * 3600, in dates of the model

\* (namespace, key): two keys of one namespace, one key in two namespaces
StoreKeys == { <<"ebay", "k1">>, <<"ebay", "k2">>, <<"rgp", "k1">> }
Namespaces == {"ebay", "rgp"}

\* The values the clients store: a dict whose price is a float or None
StoreValues == { [price_eur |-> 1200], [price_eur |-> 600],
                 [price_eur |-> None] }

\* json.dumps(value) and json.loads(row["value"]): None is written as null
JsonDumps(v) ==
    [is_null |-> v.price_eur = None,
     number  |-> IF v.price_eur = None THEN 0 ELSE v.price_eur]
JsonLoads(text) ==
    [price_eur |-> IF text.is_null THEN None ELSE text.number]

\* What get returns: the decoded value, or None
Missing == [found |-> FALSE]
Found(v) == [found |-> TRUE, value |-> v]

\* "WHERE namespace = ?" of clear_namespace, and the same with no condition
InAnyNamespace(k, namespace) == TRUE
InNamespace(k, namespace) == k[1] = namespace

\* The most recent set of each key, and whether a delete or a clear removed
\* it since (kept beside the table, for the contract only)
NeverSet == [live |-> FALSE]
LastSet(v, ttl) == [live |-> TRUE, value |-> v, expiry |-> date + ttl]

ApiInit ==
    api = [pc |-> "on", n |-> 0, op |-> "none", key |-> <<"", "">>,
           at |-> 0, out |-> Missing, sets |-> [k \in StoreKeys |-> NeverSet]]

StoreInit == cache = [k \in StoreKeys |-> NoEntry] /\ date = 0

Called(op, k, out, sets) ==
    api' = [pc |-> "on", n |-> api.n + 1, op |-> op, key |-> k, at |-> date,
            out |-> out, sets |-> sets]

\* PriceCache.set (lines 109-139)
Set(k, v, ttl) ==
    /\ api.pc = "on" /\ api.n < MaxOps
    /\ cache' = CacheSet(cache, k, JsonDumps(v), ttl)
    /\ Called("set", k, Missing, [api.sets EXCEPT ![k] = LastSet(v, ttl)])
    /\ UNCHANGED <<date, cl, http, ebay_last, netVars, sel, psr, eng, fx, fn>>

\* PriceCache.get (lines 69-107)
Get(k) ==
    /\ api.pc = "on" /\ api.n < MaxOps
    /\ cache' = CacheAfterGet(cache, k)
    /\ Called("get", k,
              IF CacheHit(cache, k) THEN Found(JsonLoads(cache[k].value))
              ELSE Missing,
              api.sets)
    /\ UNCHANGED <<date, cl, http, ebay_last, netVars, sel, psr, eng, fx, fn>>

\* PriceCache.delete (lines 141-154)
Delete(k) ==
    /\ api.pc = "on" /\ api.n < MaxOps
    /\ cache' = [cache EXCEPT ![k] = NoEntry]
    /\ Called("delete", k, Missing, [api.sets EXCEPT ![k] = NeverSet])
    /\ UNCHANGED <<date, cl, http, ebay_last, netVars, sel, psr, eng, fx, fn>>

\* PriceCache.clear_namespace (lines 156-166)
ClearNamespace(namespace) ==
    /\ api.pc = "on" /\ api.n < MaxOps
    /\ cache' = [k \in StoreKeys |->
                    IF InNamespace(k, namespace) THEN NoEntry ELSE cache[k]]
    /\ Called("clear_namespace", <<namespace, "">>, Missing,
              [k \in StoreKeys |->
                  IF k[1] = namespace THEN NeverSet ELSE api.sets[k]])
    /\ UNCHANGED <<date, cl, http, ebay_last, netVars, sel, psr, eng, fx, fn>>

\* PriceCache.clear_all (lines 168-173)
ClearAll ==
    /\ api.pc = "on" /\ api.n < MaxOps
    /\ cache' = [k \in StoreKeys |-> NoEntry]
    /\ Called("clear_all", <<"", "">>, Missing, [k \in StoreKeys |-> NeverSet])
    /\ UNCHANGED <<date, cl, http, ebay_last, netVars, sel, psr, eng, fx, fn>>

\* PriceCache.cleanup_expired (lines 175-187): DELETE WHERE expires_at < now
CleanupExpired ==
    /\ api.pc = "on" /\ api.n < MaxOps
    /\ cache' = [k \in StoreKeys |->
                    IF cache[k].present /\ cache[k].expires_at < date
                    THEN NoEntry ELSE cache[k]]
    /\ Called("cleanup_expired", <<"", "">>, Missing, api.sets)
    /\ UNCHANGED <<date, cl, http, ebay_last, netVars, sel, psr, eng, fx, fn>>

\* time.time() advances between two calls
PassTime ==
    /\ api.pc = "on"
    /\ date < MaxTime
    /\ date' = date + 1
    /\ UNCHANGED <<cache, api, cl, http, ebay_last, netVars, sel, psr, eng,
                   fx, fn>>

\* What the contract says get(k) returns at date t
Contracted(sets, k, t) ==
    IF sets[k].live /\ t < sets[k].expiry THEN Found(sets[k].value)
    ELSE Missing

\* What get(k) would return if it were called now
WouldGet(k) ==
    IF CacheHit(cache, k) THEN Found(JsonLoads(cache[k].value)) ELSE Missing

\* C11: after any sequence of set, get, delete, clear_namespace, clear_all
\* and cleanup_expired calls and any passage of time, get(namespace, key)
\* returns the value of the most recent set of that (namespace, key) exactly
\* when that set was not deleted or cleared since and the date is before
\* its expiry (set date + TTL), and None otherwise; this holds for every
\* key at once, so that a call on one namespace or key changes nothing for
\* another, and a later set replaces the value and restarts the expiry.
C11_GetReturnsLastSet ==
    api.pc = "on" =>
        /\ \A k \in StoreKeys : WouldGet(k) = Contracted(api.sets, k, date)
        /\ api.op = "get" => api.out = Contracted(api.sets, api.key, api.at)

\* C11 witness: a key was set, expired, was set again with another value,
\* and get returns the second value while the other keys are as they were.
C11_Witness ==
    /\ api.pc = "on" /\ api.op = "get" /\ api.n = 3
    /\ api.key = <<"ebay", "k1">>
    /\ date = 1
    /\ api.out = Found([price_eur |-> None])
    /\ cache[api.key].expires_at = 2
    /\ cache[api.key].hit_count = 1
    /\ ~cache[<<"rgp", "k1">>].present

---------------------------------------------------------------------------
(* FXConverter._ensure_rates_loaded and _fetch_rates  (fx.py 44-121).      *)
(* Converters are made one after the other on one cache (the engine makes  *)
(* one, get_ebay_price one per item); convert is called on the current     *)
(* one, each call running to its end before the next.                      *)

MaxConverters == 2  \* FXConverter instances made in a row
MaxConverts == 2    \* convert calls on one converter
TtlFx == 1          \* TTL_FX, in dates of the model

\* FX_API_ENDPOINTS, by rank
Endpoints == <<"exchangerate.host", "open.er-api.com">>

\* build_cache_key(type="fx_rates", base="EUR") in the namespace "fx"
FxKey == <<"fx", "base=EUR|type=fx_rates">>

\* A rate table: where it came from and its USD rate in percent
FallbackTable == [origin |-> "FALLBACK_RATES", usd |-> 92]
NoTable == [origin |-> "none", usd |-> 0]
EndpointTable(i, usd) == [origin |-> Endpoints[i], usd |-> usd]

\* What an endpoint answers: a table of rates, a body without usable rates
\* (_parse_rates returns None), an HTTP or transport error, a body that is
\* not JSON.  The last three are caught or tested and the loop goes on.
EndpointOutcomes == {"rates", "no_rates", "http_error", "bad_json"}

\* "if self._rates_loaded: return", and a converter that forgets
NeverLoaded(f) == FALSE
Loaded(f) == f.rates_loaded

\* FXConverter.__init__ (lines 44-48)
NewFx(number) ==
    [pc |-> "ready", number |-> number, calls |-> 0,
     rates_loaded |-> FALSE, rates |-> NoTable,
     resolutions |-> 0, hit |-> FALSE, contacted |-> <<>>, answers |-> <<>>,
     wrote |-> FALSE, written_at |-> 0, started_at |-> 0]

FxInit ==
    /\ fx = NewFx(1)
    /\ cache = [k \in {FxKey} |-> NoEntry]
    /\ date = 0

\* Another converter is constructed on the same cache
MakeConverter ==
    /\ fx.pc = "ready" /\ fx.number < MaxConverters
    /\ fx' = NewFx(fx.number + 1)
    /\ UNCHANGED <<cache, date, cl, http, ebay_last, netVars, sel, psr, eng,
                   api, fn>>

\* convert calls _ensure_rates_loaded: lines 94-105, up to the first
\* endpoint request
EnsureRatesLoaded ==
    /\ fx.pc = "ready" /\ fx.calls < MaxConverts
    /\ IF Loaded(fx)
       THEN /\ fx' = [fx EXCEPT !.calls = @ + 1]
            /\ UNCHANGED cache
       ELSE LET f == [fx EXCEPT !.calls = @ + 1, !.resolutions = @ + 1,
                                !.hit = CacheHit(cache, FxKey),
                                !.started_at = date]
            IN  /\ cache' = CacheAfterGet(cache, FxKey)
                /\ fx' = IF CacheHit(cache, FxKey)
                         THEN [f EXCEPT !.rates = cache[FxKey].value,
                                        !.rates_loaded = TRUE]
                         ELSE [f EXCEPT !.pc = "fetch"]
    /\ UNCHANGED <<date, cl, http, ebay_last, netVars, sel, psr, eng, api, fn>>

\* _fetch_rates: the next endpoint of the list answers (lines 52-68), and
\* the rest of _ensure_rates_loaded when the loop is over (lines 107-121)
FetchRates(outcome, usd) ==
    /\ fx.pc = "fetch"
    /\ (usd = 0) <=> (outcome # "rates")
    /\ LET i == Len(fx.contacted) + 1
           f == [fx EXCEPT !.contacted = Append(@, Endpoints[i]),
                           !.answers = Append(@, outcome)]
       IN  IF outcome = "rates"
           THEN /\ fx' = [f EXCEPT !.pc = "ready", !.rates_loaded = TRUE,
                                   !.rates = EndpointTable(i, usd),
                                   !.wrote = TRUE, !.written_at = date]
                /\ cache' = CacheSet(cache, FxKey, EndpointTable(i, usd), TtlFx)
           ELSE IF i < Len(Endpoints)
           THEN /\ fx' = f
                /\ UNCHANGED cache
           ELSE /\ fx' = [f EXCEPT !.pc = "ready", !.rates_loaded = TRUE,
                                   !.rates = FallbackTable]
                /\ UNCHANGED cache
    /\ UNCHANGED <<date, cl, http, ebay_last, netVars, sel, psr, eng, api, fn>>

\* The cache entry of the rates as the converter's last write left it
WrittenEntry ==
    [present |-> TRUE, value |-> fx.rates, expires_at |-> fx.written_at + TtlFx,
     hit_count |-> 0]

---------------------------------------------------------------------------
(* FXConverter.convert  (fx.py 123-173) as a function of its arguments,    *)
(* with the rates of FALLBACK_RATES loaded.  Amounts are in thousandths    *)
(* of a unit here, so that an amount with three decimal places exists.     *)

\* Decimal amounts: 0.000, 0.005, 1.004, 1.005, 12.340, 12.345
Amounts == {0, 5, 1004, 1005, 12340, 12345}

\* Currency codes, one of them in no rate table
Currencies == {"EUR", "USD", "GBP", "XXX"}
KnownCurrencies == {"EUR", "USD", "GBP"}

Returns(v) == [raised |-> FALSE, value |-> v]
RaisesValueError == [raised |-> TRUE, value |-> 0]

\* x.quantize(Decimal("0.01"), rounding=ROUND_HALF_UP) of num/den
\* thousandths: a whole number of hundredths, written in thousandths
Quantize(num, den) == 10 * RoundHalfUp(num, 10 * den)

Convert(amount, from_currency, to_currency) ==
    IF from_currency = to_currency THEN Returns(amount)
    ELSE IF from_currency \notin KnownCurrencies THEN RaisesValueError
    ELSE IF to_currency = "EUR"
    THEN Returns(Quantize(amount * RatePercent(from_currency), 100))
    ELSE IF to_currency \notin KnownCurrencies THEN RaisesValueError
    ELSE Returns(Quantize(amount * RatePercent(from_currency),
                          RatePercent(to_currency)))

ConvertInit ==
    \E amount \in Amounts, from_currency \in Currencies,
       to_currency \in Currencies :
        fn = [stage |-> "input", f |-> "convert", amount |-> amount,
              from_currency |-> from_currency, to_currency |-> to_currency]

ConvertCall ==
    /\ fn.stage = "input" /\ fn.f = "convert"
    /\ fn' = [fn EXCEPT !.stage = "output"] @@
             [out |-> Convert(fn.amount, fn.from_currency, fn.to_currency)]
    /\ UNCHANGED <<sel, psr, netVars, clientVars, eng, api, fx>>

\* C15: every amount convert returns, the one of a conversion between
\* equal currencies included, is quantized to two decimal places.
C15_ConvertQuantized ==
    (fn.stage = "output" /\ fn.f = "convert" /\ ~fn.out.raised) =>
        fn.out.value % 10 = 0

---------------------------------------------------------------------------
(* The negative keywords of the auction queries of one item: the           *)
(* arguments enrich_item gives get_ebay_price (pricing.py 113-123), the    *)
(* ones get_ebay_price gives search_sold_listings (ebay.py 475-488), the   *)
(* strategy table (ebay.py 300-316) and get_ebay_negative_keywords         *)
(* (utils.py 154-179).                                                     *)

Languages == {"ANY", "EN", "DE", "IT"}
Regions == {"PAL", "NTSC-U", "NTSC-J"}

\* get_language_keywords (utils.py 44-53)
LanguageKeywords(language) ==
    CASE language = "EN" -> {"English", "EN", "UK"}
      [] language = "DE" -> {"German", "DE", "Deutsch"}
      [] language = "IT" -> {"Italian", "IT", "Italiano"}
      [] OTHER -> {}

\* get_language_exclude_keywords (utils.py 56-68)
LanguageExcludeKeywords(language) ==
    IF language = "ANY" THEN {}
    ELSE UNION { LanguageKeywords(l) : l \in (Languages \ {"ANY", language}) }

\* get_region_exclude_keywords (utils.py 33-41)
RegionExcludeKeywords(region) ==
    CASE region = "PAL" -> {"NTSC-U", "NTSC-J", "NTSCU", "NTSCJ", "JAP",
                            "Japan", "Japanese", "USA"}
      [] region = "NTSC-U" -> {"PAL", "JAP", "Japan", "Japanese", "NTSC-J",
                               "NTSCJ"}
      [] region = "NTSC-J" -> {"PAL", "USA", "US", "NTSC-U", "NTSCU"}

\* get_ebay_negative_keywords (utils.py 154-179), as a set
GetEbayNegativeKeywords(region, language, strict_language, allow_lots, allow_box_only) ==
    RegionExcludeKeywords(region)
      \cup (IF ~allow_lots
            THEN {"lot", "bundle", "job lot", "collection", "bulk"} ELSE {})
      \cup (IF ~allow_box_only
            THEN {"box only", "case only", "manual only", "empty box"} ELSE {})
      \cup (IF strict_language /\ language # "ANY"
            THEN LanguageExcludeKeywords(language) ELSE {})

\* The strategy table of search_sold_listings: strict_language per strategy
StrategyStrictLanguage(strict_language) == <<strict_language, FALSE, FALSE>>

\* The parameters of search_sold_listings as get_ebay_price binds them.
\* get_ebay_price has no strict_language parameter and enrich_item passes
\* none: search_sold_listings runs with its default, False (ebay.py 254).
SearchArguments(config) ==
    [language |-> config.preferred_language,
     strict_language |-> FALSE,
     allow_lots |-> config.allow_lots,
     allow_box_only |-> config.allow_box_only]

QueryConfigs ==
    [preferred_language : Languages, strict_language : BOOLEAN,
     allow_lots : BOOLEAN, allow_box_only : BOOLEAN]

QueryInit ==
    \E config \in QueryConfigs, region \in Regions :
        fn = [stage |-> "input", f |-> "queries", config |-> config,
              region |-> region, args |-> SearchArguments(config),
              negatives |-> <<>>]

\* The strategy loop builds the negative keywords of its next query
\* (lines 322-336); every strategy is reached when none finds enough.
BuildStrategyQuery ==
    /\ fn.stage \in {"input", "searching"} /\ fn.f = "queries"
    /\ LET i == Len(fn.negatives) + 1
           strict == StrategyStrictLanguage(fn.args.strict_language)[i]
           negative_keywords ==
               GetEbayNegativeKeywords(fn.region, fn.args.language, strict,
                                       fn.args.allow_lots,
                                       fn.args.allow_box_only)
       IN  fn' = [fn EXCEPT !.negatives = Append(@, negative_keywords),
                            !.stage = IF i = Len(Strategies) THEN "output"
                                      ELSE "searching"]
    /\ UNCHANGED <<sel, psr, netVars, clientVars, eng, api, fx>>

\* Every keyword that names a language
AllLanguageKeywords == UNION { LanguageKeywords(l) : l \in Languages }

\* C16: when the configuration asks for strict language with a preferred
\* language other than ANY, the query of the strict strategy of an item
\* carries the exclusion keywords of the other languages, and the queries
\* of relaxed_language and relaxed_packaging carry no language keyword.
C16_StrictQueryExcludes ==
    (fn.stage = "output" /\ fn.f = "queries" /\ fn.config.strict_language
       /\ fn.config.preferred_language # "ANY") =>
        /\ LanguageExcludeKeywords(fn.config.preferred_language) # {}
        /\ LanguageExcludeKeywords(fn.config.preferred_language)
              \subseteq fn.negatives[1]
        /\ fn.negatives[2] \cap AllLanguageKeywords = {}
        /\ fn.negatives[3] \cap AllLanguageKeywords = {}

---------------------------------------------------------------------------
(* filter_listing and its helpers  (utils.py 214-314).  A title is the     *)
(* sequence of its characters, so that "ind in title_lower" is a search    *)
(* for a substring.                                                        *)

\* The upper-case letters of the titles, lowered by str.lower()
LowerChar(c) ==
    CASE c = "A" -> "a" [] c = "B" -> "b" [] c = "C" -> "c" [] c = "E" -> "e"
      [] c = "G" -> "g" [] c = "I" -> "i" [] c = "J" -> "j" [] c = "K" -> "k"
      [] c = "L" -> "l" [] c = "Z" -> "z"
      [] c = "M" -> "m" [] c = "N" -> "n" [] c = "O" -> "o" [] c = "P" -> "p"
      [] c = "S" -> "s" [] c = "T" -> "t" [] c = "U" -> "u" [] c = "V" -> "v"
      [] c = "W" -> "w"
      [] OTHER -> c
Lower(title) == [i \in 1..Len(title) |-> LowerChar(title[i])]

\* "ind in text"
Contains(text, ind) ==
    \E i \in 0..(Len(text) - Len(ind)) : SubSeq(text, i + 1, i + Len(ind)) = ind
ContainsAny(text, indicators) == \E ind \in indicators : Contains(text, ind)

\* title_contains_region (lines 214-232)
PalIndicators ==
    { <<"p", "a", "l">>, <<"e", "u", "r", "o", "p", "e", "a", "n">>,
      <<"e", "u", "r", "o", "p", "e">>,
      <<"u", "k", " ", "v", "e", "r", "s", "i", "o", "n">>,
      <<"e", "u", "r">> }

NtscUIndicators ==
    { <<"n", "t", "s", "c">>, <<"u", "s", "a">>,
      <<"u", "s", " ", "v", "e", "r", "s", "i", "o", "n">>,
      <<"n", "o", "r", "t", "h", " ", "a", "m", "e", "r", "i", "c", "a">>,
      <<"a", "m", "e", "r", "i", "c", "a", "n">> }

NtscJIndicators ==
    { <<"n", "t", "s", "c", "-", "j">>, <<"j", "a", "p", "a", "n">>,
      <<"j", "a", "p", "a", "n", "e", "s", "e">>, <<"j", "a", "p">>,
      <<"j", "p">> }

TitleContainsRegion(title, region) ==
    CASE region = "PAL"    -> ContainsAny(Lower(title), PalIndicators)
      [] region = "NTSC-U" -> ContainsAny(Lower(title), NtscUIndicators)
      [] region = "NTSC-J" -> ContainsAny(Lower(title), NtscJIndicators)
      [] OTHER             -> FALSE

\* title_contains_region_strict (lines 235-257)
AllPal ==
    { <<"p", "a", "l">>, <<"e", "u", "r", "o", "p", "e", "a", "n">>,
      <<"e", "u", "r", "o", "p", "e">> }

AllNtscU ==
    { <<"n", "t", "s", "c", "-", "u">>, <<"u", "s", "a">>,
      <<"u", "s", " ", "v", "e", "r", "s", "i", "o", "n">>,
      <<"a", "m", "e", "r", "i", "c", "a", "n">> }

AllNtscJ ==
    { <<"n", "t", "s", "c", "-", "j">>, <<"j", "a", "p", "a", "n">>,
      <<"j", "a", "p", "a", "n", "e", "s", "e">>, <<"j", "a", "p">> }

TitleContainsRegionStrict(title, region) ==
    LET has_pal    == ContainsAny(Lower(title), AllPal)
        has_ntsc_u == ContainsAny(Lower(title), AllNtscU)
        has_ntsc_j == ContainsAny(Lower(title), AllNtscJ)
    IN  CASE region = "PAL"    -> has_pal /\ ~has_ntsc_u /\ ~has_ntsc_j
          [] region = "NTSC-U" -> has_ntsc_u /\ ~has_pal /\ ~has_ntsc_j
          [] region = "NTSC-J" -> has_ntsc_j /\ ~has_pal /\ ~has_ntsc_u
          [] OTHER             -> FALSE

\* is_lot_or_bundle (lines 260-264)
LotIndicators ==
    { <<"l", "o", "t", " ", "o", "f">>, <<"b", "u", "n", "d", "l", "e">>,
      <<"j", "o", "b", " ", "l", "o", "t">>, <<"b", "u", "l", "k">>,
      <<" ", "x", " ">>,
      <<"c", "o", "l", "l", "e", "c", "t", "i", "o", "n", " ", "o", "f">>,
      <<"s", "e", "t", " ", "o", "f">> }

IsLotOrBundle(title) == ContainsAny(Lower(title), LotIndicators)

\* is_box_or_manual_only (lines 267-282)
BoxOnlyIndicators ==
    { <<"b", "o", "x", " ", "o", "n", "l", "y">>,
      <<"c", "a", "s", "e", " ", "o", "n", "l", "y">>,
      <<"m", "a", "n", "u", "a", "l", " ", "o", "n", "l", "y">>,
      <<"e", "m", "p", "t", "y", " ", "b", "o", "x">>,
      <<"r", "e", "p", "l", "a", "c", "e", "m", "e", "n", "t", " ", "c", "a", "s", "e">>,
      <<"n", "o", " ", "g", "a", "m", "e">>,
      <<"n", "o", " ", "c", "a", "r", "t", "r", "i", "d", "g", "e">>,
      <<"n", "o", " ", "d", "i", "s", "c">>,
      <<"a", "r", "t", "w", "o", "r", "k", " ", "o", "n", "l", "y">>,
      <<"c", "o", "v", "e", "r", " ", "o", "n", "l", "y">> }

IsBoxOrManualOnly(title) == ContainsAny(Lower(title), BoxOnlyIndicators)

\* The region check of filter_listing (lines 309-312), and one that only
\* accepts the strict marker
RegionRejectedUnlessStrict(title, region) ==
    ~TitleContainsRegionStrict(title, region)
RegionRejected(title, region) ==
    /\ ~TitleContainsRegionStrict(title, region)
    /\ ~TitleContainsRegion(title, region)

\* filter_listing (lines 285-314): (pass, reason)
FilterListing(title, region, strict_region, allow_lots, allow_box_only) ==
    IF ~allow_lots /\ IsLotOrBundle(title)
    THEN [pass |-> FALSE, reason |-> "lot/bundle"]
    ELSE IF ~allow_box_only /\ IsBoxOrManualOnly(title)
    THEN [pass |-> FALSE, reason |-> "box/manual only"]
    ELSE IF strict_region /\ RegionRejected(title, region)
    THEN [pass |-> FALSE,
          reason |-> CASE region = "PAL"    -> "region mismatch (want PAL)"
                       [] region = "NTSC-U" -> "region mismatch (want NTSC-U)"
                       [] region = "NTSC-J" -> "region mismatch (want NTSC-J)"]
    ELSE [pass |-> TRUE, reason |-> ""]

\* The words of the listing titles
TitleWords ==
    { <<"P", "A", "L">>, <<"U", "S", "A">>, <<"U", "K">>,
      <<"V", "e", "r", "s", "i", "o", "n">>,
      <<"E", "u", "r", "o", "p", "e", "a", "n">>,
      <<"J", "a", "p", "a", "n", "e", "s", "e">>,
      <<"N", "T", "S", "C", "-", "J">>, <<"B", "u", "n", "d", "l", "e">>,
      <<"B", "o", "x">>, <<"O", "n", "l", "y">>, <<"G", "a", "m", "e">> }

MaxWords == 2       \* words of a title

\* " ".join(words)
RECURSIVE Join(_)
Join(words) ==
    IF Len(words) = 0 THEN <<>>
    ELSE IF Len(words) = 1 THEN words[1]
    ELSE words[1] \o <<" ">> \o Join(Tail(words))

\* Titles of up to MaxWords different words, and two longer ones

GameUsaVersion ==
    <<"G", "a", "m", "e", " ", "U", "S", "A", " ", "V", "e", "r", "s", "i", "o", "n">>

SuperMarioWorldPalComplete ==
    Join(<<<<"S", "u", "p", "e", "r">>, <<"M", "a", "r", "i", "o">>, <<"W", "o", "r", "l", "d">>,
           <<"P", "A", "L">>, <<"C", "o", "m", "p", "l", "e", "t", "e">>>>)

ListingTitles ==
    { Join(ws) : ws \in { s \in UNION { [1..n -> TitleWords] : n \in 1..MaxWords } :
                            \A i, j \in 1..Len(s) : i # j => s[i] # s[j] } }
      \cup { GameUsaVersion, SuperMarioWorldPalComplete }

FilterInit ==
    \E title \in ListingTitles, region \in Regions, strict_region \in BOOLEAN,
       allow_lots \in BOOLEAN, allow_box_only \in BOOLEAN :
        fn = [stage |-> "input", f |-> "filter_listing", title |-> title,
              region |-> region, strict_region |-> strict_region,
              allow_lots |-> allow_lots, allow_box_only |-> allow_box_only]

FilterListingCall ==
    /\ fn.stage = "input" /\ fn.f = "filter_listing"
    /\ fn' = [fn EXCEPT !.stage = "output"] @@
             [out |-> FilterListing(fn.title, fn.region, fn.strict_region,
                                    fn.allow_lots, fn.allow_box_only)]
    /\ UNCHANGED <<sel, psr, netVars, clientVars, eng, api, fx>>

\* The reasons that contain "region"
RegionReasons ==
    { "region mismatch (want PAL)", "region mismatch (want NTSC-U)",
      "region mismatch (want NTSC-J)" }

\* The title holds a marker of the target region and no marker of another
\* region, or it holds one of the looser markers of the target region
HasRegionMarker(title, region) ==
    \/ TitleContainsRegionStrict(title, region)
    \/ TitleContainsRegion(title, region)

\* The two listings of the region-filtering example
RegionFilteringExamples ==
    /\ FilterListing(GameUsaVersion, "PAL", TRUE, FALSE, FALSE).reason
          = "region mismatch (want PAL)"
    /\ FilterListing(SuperMarioWorldPalComplete, "PAL", TRUE, FALSE, FALSE).pass

\* C18: filter_listing checks lot/bundle, then box/manual-only, then the
\* region, and reports the first check that fails.  With strict_region a
\* title that passes the first two checks is rejected with a reason
\* containing "region" exactly when it holds neither a strict
\* non-conflicting marker nor a non-strict marker of the target region, and
\* is accepted with an empty reason otherwise; without strict_region no
\* title is rejected for its region.  "Game USA Version" is rejected for a
\* PAL target, "Super Mario World PAL Complete" passes.
C18_FilterOrder ==
    (fn.stage = "output" /\ fn.f = "filter_listing") =>
        LET lot == ~fn.allow_lots /\ IsLotOrBundle(fn.title)
            box == ~fn.allow_box_only /\ IsBoxOrManualOnly(fn.title)
        IN  /\ lot => fn.out = [pass |-> FALSE, reason |-> "lot/bundle"]
            /\ (~lot /\ box) =>
                   fn.out = [pass |-> FALSE, reason |-> "box/manual only"]
            /\ (~lot /\ ~box /\ fn.strict_region) =>
                   IF HasRegionMarker(fn.title, fn.region)
                   THEN fn.out = [pass |-> TRUE, reason |-> ""]
                   ELSE ~fn.out.pass /\ fn.out.reason \in RegionReasons
            /\ (~lot /\ ~box /\ ~fn.strict_region) =>
                   fn.out = [pass |-> TRUE, reason |-> ""]
            /\ ~fn.strict_region => fn.out.reason \notin RegionReasons
            /\ RegionFilteringExamples

\* C18 witness: under strict_region for PAL, "PAL USA" holds a PAL marker
\* beside a conflicting one and is accepted on the looser marker.
C18_Witness ==
    /\ fn.stage = "output" /\ fn.f = "filter_listing"
    /\ fn.title = Join(<<<<"P", "A", "L">>, <<"U", "S", "A">>>>)
    /\ fn.region = "PAL" /\ fn.strict_region
    /\ ~TitleContainsRegionStrict(fn.title, fn.region)
    /\ fn.out = [pass |-> TRUE, reason |-> ""]

---------------------------------------------------------------------------
(* RGPClient._calculate_title_similarity  (sources/rgp.py 445-486) and     *)
(* _clean_title_for_search (170-186), on titles written as sequences of    *)
(* characters.  Scores are thousandths: 1000 is 1.0.                       *)

\* The words of the game titles
GameWords ==
    { <<"M", "a", "r", "i", "o">>,
      <<"m", "a", "r", "i", "o">>,
      <<"K", "a", "r", "t">>,
      <<"a", "r", "t">>,
      <<"I", "V">>,
      <<"Z", "e", "l", "d", "a">> }
MaxTitleWords == 2  \* words of a game title

\* Titles: up to MaxTitleWords different words, with or without a closing
\* note in parentheses
PalNote == <<" ", "(", "P", "A", "L", ")">>
GameTitles ==
    LET plain == { Join(ws) :
                     ws \in { s \in UNION { [1..n -> GameWords] :
                                              n \in 0..MaxTitleWords } :
                                \A i, j \in 1..Len(s) : i # j => s[i] # s[j] } }
    IN  plain \cup { t \o PalNote : t \in plain }

\* Position of the last "(" of a title that ends with ")", or 0
LastOpen(title) ==
    IF Len(title) = 0 \/ title[Len(title)] # ")" THEN 0
    ELSE LET opens == { i \in 1..Len(title) : title[i] = "(" }
         IN  IF opens = {} THEN 0
             ELSE CHOOSE i \in opens : \A j \in opens : j <= i

\* cleaned.strip() after ' '.join(cleaned.split()), for a text with single
\* spaces inside
RECURSIVE Strip(_)
Strip(text) ==
    IF Len(text) > 0 /\ text[Len(text)] = " "
    THEN Strip(SubSeq(text, 1, Len(text) - 1))
    ELSE IF Len(text) > 0 /\ text[1] = " " THEN Strip(Tail(text))
    ELSE text

\* _clean_title_for_search: the closing parenthetical note is removed
\* (line 181), then the surrounding white space; the titles hold no other
\* parenthesis and no special character.
CleanTitleForSearch(title) ==
    IF LastOpen(title) = 0 THEN Strip(title)
    ELSE Strip(SubSeq(title, 1, LastOpen(title) - 1))

\* str.split(): the words of a text, as a set
RECURSIVE SplitWords(_, _)
SplitWords(text, word) ==
    IF Len(text) = 0 THEN (IF word = <<>> THEN {} ELSE {word})
    ELSE IF text[1] = " "
    THEN (IF word = <<>> THEN {} ELSE {word}) \cup SplitWords(Tail(text), <<>>)
    ELSE SplitWords(Tail(text), Append(word, text[1]))

Significant(ws) == { w \in ws : Len(w) > 2 }

Min(a, b) == IF a <= b THEN a ELSE b
Max(a, b) == IF a >= b THEN a ELSE b

CalculateTitleSimilarity(search_title, result_title) ==
    LET search_clean == Lower(CleanTitleForSearch(search_title))
        result_clean == Lower(CleanTitleForSearch(result_title))
        shorter == Min(Len(search_clean), Len(result_clean))
        longer == Max(Len(search_clean), Len(result_clean))
        search_words == SplitWords(search_clean, <<>>)
        result_words == SplitWords(result_clean, <<>>)
        search_words_significant ==
            IF Significant(search_words) = {} THEN search_words
            ELSE Significant(search_words)
        common_words == search_words_significant \cap Significant(result_words)
    IN  IF search_clean = result_clean THEN 1000
        ELSE IF Contains(result_clean, search_clean)
                  \/ Contains(search_clean, result_clean)
        THEN IF longer > 0 THEN 800 + (200 * shorter) \div longer ELSE 800
        ELSE IF common_words = {} THEN 0
        ELSE Min(700, (Cardinality(common_words) * 700)
                          \div Cardinality(search_words_significant))

SimilarityInit ==
    \E search_title \in GameTitles, result_title \in GameTitles :
        fn = [stage |-> "input", f |-> "title_similarity",
              search_title |-> search_title, result_title |-> result_title]

TitleSimilarityCall ==
    /\ fn.stage = "input" /\ fn.f = "title_similarity"
    /\ fn' = [fn EXCEPT !.stage = "output"] @@
             [out |-> CalculateTitleSimilarity(fn.search_title, fn.result_title)]
    /\ UNCHANGED <<sel, psr, netVars, clientVars, eng, api, fx>>

\* The words longer than 2 characters of a normalized title
SignificantWordsOf(title) ==
    Significant(SplitWords(Lower(CleanTitleForSearch(title)), <<>>))

SameAfterNormalization(a, b) ==
    Lower(CleanTitleForSearch(a)) = Lower(CleanTitleForSearch(b))

\* C19: _calculate_title_similarity returns 1.0 when the two titles are
\* equal after normalization, in either argument order, and 0.0 for every
\* pair of (different) titles that share no word longer than 2 characters.
C19_SimilarityEnds ==
    (fn.stage = "output" /\ fn.f = "title_similarity") =>
        /\ SameAfterNormalization(fn.search_title, fn.result_title) =>
              /\ fn.out = 1000
              /\ CalculateTitleSimilarity(fn.result_title, fn.search_title) = 1000
        /\ (~SameAfterNormalization(fn.search_title, fn.result_title)
              /\ SignificantWordsOf(fn.search_title)
                    \cap SignificantWordsOf(fn.result_title) = {}) =>
              fn.out = 0

---------------------------------------------------------------------------
(* PricingConfig.validate  (pricing.py 54-60) on the weights the command   *)
(* line accepts (__main__.py 115-128): each between 0 and 1 inclusive.     *)
(* Weights are exact fractions num/den; the inputs are the multiples of    *)
(* 1/WeightScale.                                                          *)

WeightScale == 10  \* the accepted weights are k/WeightScale, k in 0..WeightScale

\* --weight-ebay and --weight-rgp: min=0.0, max=1.0
AcceptedWeights == 0..WeightScale

Fraction(num, den) == [num |-> num, den |-> den]

\* a / b = c / d
SameFraction(x, y) == x.num * y.den = y.num * x.den

\* validate(): nothing when the weights sum to 1; otherwise both are divided
\* by their sum, and the division raises when the sum is 0.
Validate(weight_ebay, weight_rgp) ==
    LET total == weight_ebay + weight_rgp
    IN  IF total = WeightScale
        THEN [raised |-> "none",
              weight_ebay |-> Fraction(weight_ebay, WeightScale),
              weight_rgp |-> Fraction(weight_rgp, WeightScale)]
        ELSE IF total = 0
        THEN [raised |-> "ZeroDivisionError",
              weight_ebay |-> Fraction(weight_ebay, WeightScale),
              weight_rgp |-> Fraction(weight_rgp, WeightScale)]
        ELSE [raised |-> "none",
              weight_ebay |-> Fraction(weight_ebay, total),
              weight_rgp |-> Fraction(weight_rgp, total)]

ValidateInit ==
    \E weight_ebay \in AcceptedWeights, weight_rgp \in AcceptedWeights :
        fn = [stage |-> "input", f |-> "validate",
              weight_ebay |-> weight_ebay, weight_rgp |-> weight_rgp]

ValidateCall ==
    /\ fn.stage = "input" /\ fn.f = "validate"
    /\ fn' = [fn EXCEPT !.stage = "output"] @@
             [out |-> Validate(fn.weight_ebay, fn.weight_rgp)]
    /\ UNCHANGED <<sel, psr, netVars, clientVars, eng, api, fx>>

\* C20: validate() completes for every pair of accepted weights and leaves
\* the two weights with sum 1 and their ratio unchanged; weights that
\* already sum to 1 are left as they are.
C20_ValidateNormalizes ==
    (fn.stage = "output" /\ fn.f = "validate") =>
        /\ fn.out.raised = "none"
        /\ fn.out.weight_ebay.den = fn.out.weight_rgp.den
        /\ fn.out.weight_ebay.num + fn.out.weight_rgp.num = fn.out.weight_ebay.den
        /\ fn.out.weight_ebay.num * fn.weight_rgp
             = fn.out.weight_rgp.num * fn.weight_ebay
        /\ fn.weight_ebay + fn.weight_rgp = WeightScale =>
              /\ SameFraction(fn.out.weight_ebay,
                              Fraction(fn.weight_ebay, WeightScale))
              /\ SameFraction(fn.out.weight_rgp,
                              Fraction(fn.weight_rgp, WeightScale))

---------------------------------------------------------------------------
(* The specifications *)

InitSelect ==
    SelInit /\ PsrIdle /\ NetIdle /\ ClientsIdle /\ EngIdle
      /\ ApiIdle /\ FxIdle /\ FnIdle
NextSelect == SelectPrice /\ UNCHANGED <<psr, netVars, clientVars, eng, api, fx, fn>>
SpecSelect == InitSelect /\ [][NextSelect]_vars

InitParse ==
    PsrInit /\ SelIdle /\ NetIdle /\ ClientsIdle /\ EngIdle
      /\ ApiIdle /\ FxIdle /\ FnIdle
NextParse == ParseResults /\ UNCHANGED <<sel, netVars, clientVars, eng, api, fx, fn>>
SpecParse == InitParse /\ [][NextParse]_vars

InitNet ==
    NetInit /\ SelIdle /\ PsrIdle /\ ClientsIdle /\ EngIdle
      /\ ApiIdle /\ FxIdle /\ FnIdle
SpecNet == InitNet /\ [][NextNet]_vars

\* The limiter under fair scheduling: the event loop runs every coroutine
\* that is ready, the lock wakes its waiters in order, a sleep and an HTTP
\* exchange (timeout 30 s) end.
NextLimiter ==
    \/ \E c \in Callers : EnterRateLimit(c)
    \/ \E c \in Callers : AcquireLock(c)
    \/ \E c \in Callers : WakeUp(c)
    \/ \E c \in Callers, o \in Outcomes : HttpResponse(c, o)
    \/ Elapse
SpecLimiter ==
    /\ InitNet /\ [][NextLimiter]_vars
    /\ WF_vars(Elapse)
    /\ \A c \in Callers :
          /\ WF_vars(EnterRateLimit(c))
          /\ WF_vars(AcquireLock(c))
          /\ WF_vars(WakeUp(c))
          /\ WF_vars(\E o \in Outcomes : HttpResponse(c, o))


InitClients ==
    /\ cache = EmptyCache /\ date = 0 /\ http = 0 /\ ebay_last = 0
    /\ \E include_shipping \in BOOLEAN :
          cl = IdleCall(include_shipping, MaxResults)
    /\ SelIdle /\ PsrIdle /\ EngIdle /\ ApiIdle /\ FxIdle /\ FnIdle
    /\ now = 1 /\ last_request_time = 0
    /\ lock = [holder |-> 0, waiters |-> <<>>] /\ req = <<>> /\ returns = NoReturn
NextClients ==
    \/ \E item \in ItemSamples : SearchSoldListings(item)
    \/ \E outcome \in {"ok", "http_error", "bad_ack"}, response \in Responses :
            EbayAttempt(outcome, response)
    \/ \E item \in ItemSamples : GetPrice(item)
    \/ \E outcome \in Outcomes, page \in Pages \cup {NoPage} :
            RgpAttempt(outcome, page)
    \/ AdvanceDate
SpecClients == InitClients /\ [][NextClients]_vars

\* The auction searches of successive runs of the program on one cache file
NextRuns ==
    \/ \E item \in ItemSamples : SearchSoldListings(item)
    \/ \E outcome \in {"ok", "http_error", "bad_ack"}, response \in Responses :
            EbayAttempt(outcome, response)
    \/ \E include_shipping \in BOOLEAN : NewRun(include_shipping)
    \/ AdvanceDate
SpecRuns == InitClients /\ [][NextRuns]_vars

Init ==
    EngInit /\ ClientsIdle /\ NetIdle /\ SelIdle /\ PsrIdle
      /\ ApiIdle /\ FxIdle /\ FnIdle
Next ==
    \/ EnrichBatch
    \/ EnrichItem
    \/ \E raised \in BOOLEAN, filtered \in FilteredLists :
            QueryAuction(raised, filtered)
    \/ \E page \in CatalogPages \cup {NoPage}, fx_raises \in BOOLEAN :
            QueryCatalog(page, fx_raises)
    \/ Combine
    \/ AdvanceDate
Spec == Init /\ [][Next]_vars

InitCache ==
    /\ ApiInit /\ StoreInit
    /\ cl = IdleCall(FALSE, 1) /\ http = 0 /\ ebay_last = 0
    /\ NetIdle /\ SelIdle /\ PsrIdle /\ EngIdle /\ FxIdle /\ FnIdle
NextCache ==
    \/ \E k \in StoreKeys, v \in StoreValues, ttl \in Ttls : Set(k, v, ttl)
    \/ \E k \in StoreKeys : Get(k)
    \/ \E k \in StoreKeys : Delete(k)
    \/ \E namespace \in Namespaces : ClearNamespace(namespace)
    \/ ClearAll
    \/ CleanupExpired
    \/ PassTime
SpecCache == InitCache /\ [][NextCache]_vars

InitFx ==
    /\ FxInit
    /\ cl = IdleCall(FALSE, 1) /\ http = 0 /\ ebay_last = 0
    /\ NetIdle /\ SelIdle /\ PsrIdle /\ EngIdle /\ ApiIdle /\ FnIdle
NextFx ==
    \/ MakeConverter
    \/ EnsureRatesLoaded
    \/ \E outcome \in EndpointOutcomes, usd \in {0, 85, 92} :
            FetchRates(outcome, usd)
    \/ AdvanceDate
SpecFx == InitFx /\ [][NextFx]_vars

InitConvert ==
    /\ ConvertInit
    /\ SelIdle /\ PsrIdle /\ NetIdle /\ ClientsIdle /\ EngIdle
    /\ ApiIdle /\ FxIdle
SpecConvert == InitConvert /\ [][ConvertCall]_vars

InitQuery ==
    /\ QueryInit
    /\ SelIdle /\ PsrIdle /\ NetIdle /\ ClientsIdle /\ EngIdle
    /\ ApiIdle /\ FxIdle
SpecQuery == InitQuery /\ [][BuildStrategyQuery]_vars

InitFilter ==
    /\ FilterInit
    /\ SelIdle /\ PsrIdle /\ NetIdle /\ ClientsIdle /\ EngIdle
    /\ ApiIdle /\ FxIdle
SpecFilter == InitFilter /\ [][FilterListingCall]_vars

InitSimilarity ==
    /\ SimilarityInit
    /\ SelIdle /\ PsrIdle /\ NetIdle /\ ClientsIdle /\ EngIdle
    /\ ApiIdle /\ FxIdle
SpecSimilarity == InitSimilarity /\ [][TitleSimilarityCall]_vars

InitValidate ==
    /\ ValidateInit
    /\ SelIdle /\ PsrIdle /\ NetIdle /\ ClientsIdle /\ EngIdle
    /\ ApiIdle /\ FxIdle
SpecValidate == InitValidate /\ [][ValidateCall]_vars
=============================================================================
